---- MODULE Spec2Model ----
(***************************************************************************)
(* Model of the Music Arrangement Analyzer (ringmaster/arrange).           *)
(*                                                                         *)
(* Part I  - the arrangement: App.tsx (arrangementData and its mutators),  *)
(*           InstrumentRow.tsx and SectionBar.tsx (pointer handlers).      *)
(* Part II - the player: MusicPlayer.tsx (second component of the file,    *)
(*           lines 404-1215), play / pause / stop / seek and the polling   *)
(*           loop.                                                         *)
(*                                                                         *)
(* An action is one event handler together with the React re-render and    *)
(* the effects that run before the next event is delivered.                *)
(***************************************************************************)
EXTENDS Integers, Sequences, FiniteSets, TLC

VARIABLES
    arrangementName,    \* arrangementData.name
    totalBars,      \* arrangementData.totalBars
    sections,       \* arrangementData.sections : Section[]
    instruments,    \* arrangementData.instruments : Instrument[]
    rows,           \* InstrumentRow component state, one per mounted instrument id
    sectionBar,     \* SectionBar component state
    player,         \* MusicPlayer: refs, React state, pending frames and timeouts
    download,       \* the file the last export produced, and what it was made from
    gesturesLeft,   \* exploration budget: the pointer gestures a run may still begin
    advancesLeft,   \* exploration budget: the times the audio clock may still advance
    lastOp          \* history: the handler that ran last and the clientX it was given

arrVars == <<arrangementName, totalBars, sections, instruments>>
uiVars == <<rows, sectionBar>>
playerVars == <<player, advancesLeft>>

----------------------------------------------------------------------------
(* Bounds of the model *)

\* pixels per bar column of a track (rect.width = totalBars * PxPerBar)
PxPerBar == 2
\* activities of one instrument, sections of the arrangement
MaxActivities == 2
MaxSections == 1
\* pointer gestures (a press on a track or on an interval, a click) in a run
MaxGestures == 3
\* advances of the audio clock in a run
MaxAdvances == 2

(* Program constants *)

\* useState initial totalBars
InitialTotalBars == 64
\* Math.max(64, maxUsedBar + 4)
MinRequiredBars == 64
BarMargin == 4
\* clickedBar + 3 : the default click span
DefaultSpanExtra == 3
MAX_VARIATIONS == 4
\* duration / 64 : the bar length seekToBar assumes without a beat grid
DefaultBarCount == 64
\* timeSignature.beats
BeatsPerBar == 4

----------------------------------------------------------------------------
(* Helpers *)

Max(a, b) == IF a >= b THEN a ELSE b
Min(a, b) == IF a <= b THEN a ELSE b
Abs(a) == IF a < 0 THEN 0 - a ELSE a
\* Math.ceil(a / b) for b > 0
CeilDiv(a, b) == 0 - ((0 - a) \div b)
Range(s) == {s[k] : k \in DOMAIN s}
\* an optional value (null | T) is the empty or the one-element sequence
None == <<>>
Some(v) == <<v>>

\* uuidv4(): an id that nothing in the program holds
UsedIds ==
    {s.id : s \in Range(sections)}
    \cup {i.id : i \in Range(instruments)}
    \cup UNION {{a.id : a \in Range(i.activities)} : i \in Range(instruments)}
    \cup UNION {{d.activityId : d \in Range(rows[r].dragInfo)} : r \in DOMAIN rows}
    \cup {d.id : d \in Range(sectionBar.draggingSection)}
uuidv4 == CHOOSE n \in 1..(Cardinality(UsedIds) + 1) : n \notin UsedIds

\* Array.prototype.sort((a, b) => a.startBar - b.startBar): a stable sort
RECURSIVE InsertByStart(_, _)
InsertByStart(sorted, x) ==
    IF sorted = <<>> THEN <<x>>
    ELSE IF Head(sorted).startBar <= x.startBar
         THEN <<Head(sorted)>> \o InsertByStart(Tail(sorted), x)
         ELSE <<x>> \o sorted
RECURSIVE SortByStartBar(_)
SortByStartBar(s) ==
    IF s = <<>> THEN <<>>
    ELSE InsertByStart(SortByStartBar(SubSeq(s, 1, Len(s) - 1)), s[Len(s)])

\* {...section, ...updates}: the fields of updates replace those of section
Spread(section, updates) ==
    [f \in DOMAIN section |-> IF f \in DOMAIN updates THEN updates[f] ELSE section[f]]

----------------------------------------------------------------------------
(* App.tsx *)

\* the arrangementData of the first render: useState's initial value
InitialArrangement ==
    [name |-> "New Arrangement", totalBars |-> InitialTotalBars,
     sections |-> <<>>, instruments |-> <<>>]

\* The callbacks that call calculateRequiredBars are built by
\* useCallback(..., []), so they keep the calculateRequiredBars of the first
\* render, whose arrangementData is the initial one.
ClosureArrangement == InitialArrangement

maxUsedBar(data) ==
    LET ends == {s.endBar : s \in Range(data.sections)}
                \cup UNION {{a.endBar : a \in Range(i.activities)} : i \in Range(data.instruments)}
    IN  IF ends = {} THEN 0 ELSE CHOOSE m \in ends : \A e \in ends : e <= m

requiredBars(data) == Max(MinRequiredBars, maxUsedBar(data) + BarMargin)

\* the totalBars that results from calculateRequiredBars() run on the
\* captured arrangementData `data` when the state holds `current`
calculateRequiredBars(data, current) ==
    IF requiredBars(data) > data.totalBars THEN requiredBars(data) ELSE current

updateTotalBars(newTotalBars) ==
    /\ totalBars' = newTotalBars
    /\ UNCHANGED <<arrangementName, sections, instruments>>

addActivity(instrumentId, startBar, endBar) ==
    /\ instruments' = [k \in DOMAIN instruments |->
            IF instruments[k].id = instrumentId
            THEN [instruments[k] EXCEPT !.activities =
                    Append(@, [id |-> uuidv4, startBar |-> startBar,
                               endBar |-> endBar, variation |-> None])]
            ELSE instruments[k]]
    /\ totalBars' = calculateRequiredBars(ClosureArrangement, totalBars)
    /\ UNCHANGED <<arrangementName, sections>>

\* variation is None (undefined) or Some(v)
updateActivity(instrumentId, activityId, startBar, endBar, variation) ==
    /\ instruments' = [k \in DOMAIN instruments |->
            IF instruments[k].id = instrumentId
            THEN [instruments[k] EXCEPT !.activities = [n \in DOMAIN @ |->
                    IF @[n].id = activityId
                    THEN [@[n] EXCEPT
                            !.startBar = startBar,
                            !.endBar = endBar,
                            !.variation = IF variation # None THEN variation ELSE @]
                    ELSE @[n]]]
            ELSE instruments[k]]
    /\ totalBars' = IF variation = None
                    THEN calculateRequiredBars(ClosureArrangement, totalBars)
                    ELSE totalBars
    /\ UNCHANGED <<arrangementName, sections>>

\* a deleteActivity that fits the canvas to what is left
deleteActivityShrinking(instrumentId, activityId) ==
    /\ instruments' = [k \in DOMAIN instruments |->
            IF instruments[k].id = instrumentId
            THEN [instruments[k] EXCEPT !.activities =
                    SelectSeq(@, LAMBDA a : a.id # activityId)]
            ELSE instruments[k]]
    /\ totalBars' = maxUsedBar([sections |-> sections, instruments |-> instruments'])
                        + BarMargin
    /\ UNCHANGED <<arrangementName, sections>>

deleteActivity(instrumentId, activityId) ==
    /\ instruments' = [k \in DOMAIN instruments |->
            IF instruments[k].id = instrumentId
            THEN [instruments[k] EXCEPT !.activities =
                    SelectSeq(@, LAMBDA a : a.id # activityId)]
            ELSE instruments[k]]
    /\ UNCHANGED <<arrangementName, totalBars, sections>>

addSection(name, startBar, endBar) ==
    /\ sections' = SortByStartBar(Append(sections,
            [id |-> uuidv4, name |-> name, startBar |-> startBar, endBar |-> endBar]))
    /\ totalBars' = calculateRequiredBars(ClosureArrangement, totalBars)
    /\ UNCHANGED <<arrangementName, instruments>>

\* updates : a record of some of the fields name, startBar, endBar
updateSection(sectionId, updates) ==
    /\ sections' = SortByStartBar([k \in DOMAIN sections |->
            IF sections[k].id = sectionId
            THEN Spread(sections[k], updates)
            ELSE sections[k]])
    /\ totalBars' = calculateRequiredBars(ClosureArrangement, totalBars)
    /\ UNCHANGED <<arrangementName, instruments>>

deleteSection(sectionId) ==
    /\ sections' = SelectSeq(sections, LAMBDA s : s.id # sectionId)
    /\ UNCHANGED <<arrangementName, totalBars, instruments>>

----------------------------------------------------------------------------
(* ArrangementGrid.tsx: one InstrumentRow per instrument, keyed by its id *)

InitialRow ==
    [isDragging |-> FALSE, dragInfo |-> None,
     isCreatingActivity |-> FALSE, creationStartBar |-> None]

\* rows after a render of `insts`: a row keeps its state while its key is
\* rendered and is mounted afresh otherwise
MountRows(insts) ==
    [id \in {i.id : i \in Range(insts)} |->
        IF id \in DOMAIN rows THEN rows[id] ELSE InitialRow]

InstrumentById(id) == CHOOSE i \in Range(instruments) : i.id = id

----------------------------------------------------------------------------
(* Pointer geometry.  A track is laid out from rect.left = 0 over           *)
(* rect.width = totalBars * PxPerBar pixels; bar b covers the pixels        *)
(* (b-1)*PxPerBar .. b*PxPerBar - 1 (getExactBarPosition, getExactBarWidth). *)

RowWidth == totalBars * PxPerBar

\* the pixels of bar column b: its first and its last pixel
ColumnXs(b) == {(b - 1) * PxPerBar, b * PxPerBar - 1}

\* clientX of the pointer events the model delivers inside a track: over the
\* first and over the last bar column
InsideXs == ColumnXs(1) \cup ColumnXs(totalBars)
\* ... and anywhere in the document (left of, inside, right of the track)
DocumentXs == InsideXs \cup {0 - 1, RowWidth}

\* the pixels of the DOM box of an interval's left handle, right handle, body
BoxXs(interval, edge) ==
    LET first == ColumnXs(interval.startBar)
        last  == ColumnXs(interval.endBar)
        body  == {x \in InsideXs : /\ x \div PxPerBar >= interval.startBar - 1
                                   /\ x \div PxPerBar <= interval.endBar - 1}
    IN  CASE edge = "start" -> first
          [] edge = "end"   -> last
          [] OTHER          -> first \cup last \cup body

Op(name, x) == [op |-> name, x |-> x]

----------------------------------------------------------------------------
(* InstrumentRow.tsx; r is the id of the row's instrument *)

getBarPositionFromMousePos(mousePos) ==
    Max(1, Min(totalBars, (mousePos * totalBars) \div RowWidth + 1))

Activities(r) == InstrumentById(r).activities
ActivityById(r, id) == CHOOSE a \in Range(Activities(r)) : a.id = id
HasActivity(r, id) == \E a \in Range(Activities(r)) : a.id = id

handleActivityMouseDown(r, activityId, edge, clientX) ==
    /\ rows' = [rows EXCEPT ![r] = [@ EXCEPT
            !.isDragging = TRUE,
            !.dragInfo = Some([activityId |-> activityId, edge |-> edge,
                               initialBar |-> getBarPositionFromMousePos(clientX),
                               initialStart |-> ActivityById(r, activityId).startBar,
                               initialEnd |-> ActivityById(r, activityId).endBar])]]
    /\ UNCHANGED <<arrVars, sectionBar>>

\* a variation that stops at the ends of 0..MAX_VARIATIONS
newVariationClamped(currentVariation, direction) ==
    Max(0, Min(MAX_VARIATIONS, currentVariation + direction))

\* the variation after one wheel step in `direction` (-1 up, 1 down)
newVariation(currentVariation, direction) ==
    LET v == currentVariation + direction
        \* JavaScript % : the sign of the dividend
        rem == IF v < 0 THEN 0 - ((0 - v) % (MAX_VARIATIONS + 1)) ELSE v % (MAX_VARIATIONS + 1)
    IN  IF rem < 0 THEN MAX_VARIATIONS ELSE rem

\* throttled: less than wheelThrottleDelay since the element's last wheel time
handleActivityWheel(r, activityId, direction, throttled) ==
    LET activity == ActivityById(r, activityId)
        currentVariation == IF activity.variation = None THEN 0 ELSE activity.variation[1]
    IN  /\ IF throttled
           THEN UNCHANGED arrVars
           ELSE updateActivity(r, activity.id, activity.startBar, activity.endBar,
                               Some(newVariation(currentVariation, direction)))
        /\ UNCHANGED uiVars

\* a move branch that does not keep the start at bar 1 or after
moveCandidateUnclamped(info, currentBar) ==
    LET barDiff == currentBar - info.initialBar
        activityLength == info.initialEnd - info.initialStart
        newStartBar == info.initialStart + barDiff
        newEndBar == newStartBar + activityLength
    IN  IF newEndBar > totalBars
        THEN [startBar |-> totalBars - activityLength, endBar |-> totalBars]
        ELSE [startBar |-> newStartBar, endBar |-> newEndBar]

\* the move branch: the candidate [newStartBar, newEndBar]
moveCandidate(info, currentBar) ==
    LET barDiff == currentBar - info.initialBar
        activityLength == info.initialEnd - info.initialStart
        newStartBar == Max(1, info.initialStart + barDiff)
        newEndBar == newStartBar + activityLength
    IN  IF newEndBar > totalBars
        THEN [startBar |-> Max(1, totalBars - activityLength), endBar |-> totalBars]
        ELSE [startBar |-> newStartBar, endBar |-> newEndBar]

\* a conflict test with exclusive range ends
hasConflictExclusive(activities, selfId, startBar, endBar) ==
    \E a \in Range(activities) :
        /\ a.id # selfId
        /\ startBar < a.endBar
        /\ endBar > a.startBar

\* instrument.activities.some(a => a.id !== self && start <= a.endBar && end >= a.startBar)
hasConflict(activities, selfId, startBar, endBar) ==
    \E a \in Range(activities) :
        /\ a.id # selfId
        /\ startBar <= a.endBar
        /\ endBar >= a.startBar

\* instrument.activities.some(a => start <= a.endBar && end >= a.startBar)
overlapsExisting(activities, startBar, endBar) ==
    \E a \in Range(activities) :
        /\ startBar <= a.endBar
        /\ endBar >= a.startBar

\* a start branch that lets the start pass the end
startEdgeBarPastEnd(info, activity, barDiff) ==
    Max(1, info.initialStart + barDiff)

\* the start branch: Math.min(Math.max(1, initialStart + barDiff), activity.endBar)
startEdgeBar(info, activity, barDiff) ==
    Min(Max(1, info.initialStart + barDiff), activity.endBar)

\* the body shared by handleMouseMove and handleGlobalMouseMove
dragMove(r, clientX) ==
    IF ~rows[r].isDragging \/ rows[r].dragInfo = None
    THEN UNCHANGED arrVars
    ELSE LET info == rows[r].dragInfo[1]
             currentBar == getBarPositionFromMousePos(clientX)
             barDiff == currentBar - info.initialBar
         IN  IF ~HasActivity(r, info.activityId)
             THEN UNCHANGED arrVars
             ELSE LET activity == ActivityById(r, info.activityId)
                  IN  CASE info.edge = "start" ->
                             updateActivity(r, activity.id,
                                 startEdgeBar(info, activity, barDiff),
                                 activity.endBar, activity.variation)
                        [] info.edge = "end" ->
                             updateActivity(r, activity.id, activity.startBar,
                                 Max(Min(totalBars, info.initialEnd + barDiff), activity.startBar),
                                 activity.variation)
                        [] OTHER ->
                             LET c == moveCandidate(info, currentBar)
                             IN  IF ~hasConflict(Activities(r), activity.id, c.startBar, c.endBar)
                                 THEN updateActivity(r, activity.id, c.startBar, c.endBar,
                                                     activity.variation)
                                 ELSE UNCHANGED arrVars

\* onMouseMove of the row while isDragging
handleMouseMove(r, clientX) ==
    /\ rows[r].isDragging
    /\ dragMove(r, clientX)
    /\ UNCHANGED uiVars

\* document 'mousemove' listener, attached while isDragging && dragInfo
handleGlobalMouseMove(r, clientX) ==
    /\ rows[r].isDragging /\ rows[r].dragInfo # None
    /\ dragMove(r, clientX)
    /\ UNCHANGED uiVars

\* onMouseUp of the row while isDragging
handleMouseUp(r) ==
    /\ rows[r].isDragging
    /\ rows' = [rows EXCEPT ![r] = [@ EXCEPT !.isDragging = FALSE, !.dragInfo = None]]
    /\ UNCHANGED <<arrVars, sectionBar>>

\* document 'mouseup' listener, attached while isDragging && dragInfo
handleGlobalMouseUp(r) ==
    /\ rows[r].isDragging /\ rows[r].dragInfo # None
    /\ rows' = [rows EXCEPT ![r] = [@ EXCEPT !.isDragging = FALSE, !.dragInfo = None]]
    /\ UNCHANGED <<arrVars, sectionBar>>

findSectionAtBar(bar) ==
    LET hits == {k \in DOMAIN sections :
                    bar >= sections[k].startBar /\ bar <= sections[k].endBar}
    IN  IF hits = {} THEN None
        ELSE Some(sections[CHOOSE k \in hits : \A j \in hits : k <= j])

\* onMouseDown of the row while not isDragging, on the row background
handleRowMouseDown(r, clientX) ==
    LET clickedBar == getBarPositionFromMousePos(clientX)
        conflict == \E a \in Range(Activities(r)) :
                        clickedBar >= a.startBar /\ clickedBar <= a.endBar
    IN  /\ ~rows[r].isDragging
        /\ IF ~conflict
           THEN rows' = [rows EXCEPT ![r] = [@ EXCEPT
                    !.isCreatingActivity = TRUE,
                    !.creationStartBar = Some(clickedBar)]]
           ELSE UNCHANGED rows
        /\ UNCHANGED <<arrVars, sectionBar>>

\* a default span that runs past the last bar
clickSpanPastEnd(clickedBar) ==
    LET section == findSectionAtBar(clickedBar)
    IN  IF section # None
        THEN [startBar |-> section[1].startBar, endBar |-> section[1].endBar]
        ELSE [startBar |-> clickedBar, endBar |-> clickedBar + DefaultSpanExtra]

\* the span a click on clickedBar asks for
clickSpan(clickedBar) ==
    LET section == findSectionAtBar(clickedBar)
    IN  IF section # None
        THEN [startBar |-> section[1].startBar, endBar |-> section[1].endBar]
        ELSE [startBar |-> clickedBar,
              endBar |-> Min(totalBars, clickedBar + DefaultSpanExtra)]

\* onMouseUp of the row while not isDragging and isCreatingActivity
handleCreationMouseUp(r, clientX) ==
    /\ ~rows[r].isDragging /\ rows[r].isCreatingActivity
    /\ IF rows[r].isCreatingActivity /\ rows[r].creationStartBar # None
       THEN LET creationStartBar == rows[r].creationStartBar[1]
                endBar == getBarPositionFromMousePos(clientX)
                span == IF Abs(endBar - creationStartBar) < 1
                        THEN clickSpan(creationStartBar)
                        ELSE [startBar |-> Min(creationStartBar, endBar),
                              endBar |-> Max(creationStartBar, endBar)]
            IN  /\ IF ~overlapsExisting(Activities(r), span.startBar, span.endBar)
                   THEN addActivity(r, span.startBar, span.endBar)
                   ELSE UNCHANGED arrVars
                /\ rows' = [rows EXCEPT ![r] = [@ EXCEPT
                        !.isCreatingActivity = FALSE, !.creationStartBar = None]]
       ELSE UNCHANGED <<arrVars, rows>>
    /\ UNCHANGED sectionBar

\* onClick of the row content while not isCreatingActivity, on the background
handleRowClick(r, clientX) ==
    LET span == clickSpan(getBarPositionFromMousePos(clientX))
    IN  /\ ~rows[r].isCreatingActivity
        /\ IF ~overlapsExisting(Activities(r), span.startBar, span.endBar)
           THEN addActivity(r, span.startBar, span.endBar)
           ELSE UNCHANGED arrVars
        /\ UNCHANGED uiVars

handleDeleteActivity(r, activityId) ==
    /\ deleteActivity(r, activityId)
    /\ UNCHANGED uiVars

----------------------------------------------------------------------------
(* SectionBar.tsx *)

InitialSectionBar ==
    [draggingSection |-> None, isDragging |-> FALSE,
     isCreatingSection |-> FALSE, creationStartBar |-> None]

positionToBar(clientX) ==
    Max(1, Min(totalBars, CeilDiv(clientX * totalBars, RowWidth)))

HasSection(id) == \E s \in Range(sections) : s.id = id
SectionById(id) == CHOOSE s \in Range(sections) : s.id = id

Letters == <<"A", "B", "C", "D", "E", "F", "G", "H", "I", "J", "K", "L", "M",
             "N", "O", "P", "Q", "R", "S", "T", "U", "V", "W", "X", "Y", "Z">>
LetterIndex(name) == CHOOSE k \in DOMAIN Letters : Letters[k] = name

\* the name given to a created section
nextSectionName ==
    IF Len(sections) = 0 THEN "Intro"
    ELSE LET letterSections == {s \in Range(sections) : s.name \in Range(Letters)}
         IN  IF letterSections # {}
             THEN LET lastLetter == CHOOSE k \in {LetterIndex(s.name) : s \in letterSections} :
                                        \A s \in letterSections : LetterIndex(s.name) <= k
                  IN  IF lastLetter + 1 > Len(Letters) THEN "A" ELSE Letters[lastLetter + 1]
             ELSE "A"

\* onMouseDown of the timeline
handleTimelineMouseDown(clientX) ==
    LET clickedBar == positionToBar(clientX)
        overlappingSections == {s \in Range(sections) :
                                    clickedBar >= s.startBar /\ clickedBar <= s.endBar}
    IN  /\ IF ~sectionBar.isDragging /\ overlappingSections = {}
           THEN sectionBar' = [sectionBar EXCEPT
                    !.isCreatingSection = TRUE,
                    !.creationStartBar = Some(clickedBar)]
           ELSE UNCHANGED sectionBar
        /\ UNCHANGED <<arrVars, rows>>

\* onClick of the timeline
handleTimelineClick(clientX) ==
    LET clickedBar == positionToBar(clientX)
        overlappingSections == {s \in Range(sections) :
                                    clickedBar >= s.startBar /\ clickedBar <= s.endBar}
    IN  /\ IF sectionBar.isDragging \/ sectionBar.isCreatingSection
              \/ overlappingSections # {}
           THEN UNCHANGED arrVars
           ELSE addSection(nextSectionName, clickedBar,
                           Min(totalBars, clickedBar + DefaultSpanExtra))
        /\ UNCHANGED uiVars

\* onMouseDown of a section's left handle, right handle or body
handleMouseDown(sectionId, edge, clientX) ==
    /\ sectionBar' = [sectionBar EXCEPT
            !.draggingSection = Some([id |-> sectionId, edge |-> edge,
                                      initialBar |-> positionToBar(clientX),
                                      initialStart |-> SectionById(sectionId).startBar,
                                      initialEnd |-> SectionById(sectionId).endBar]),
            !.isDragging = TRUE]
    /\ UNCHANGED <<arrVars, rows>>

\* onMouseMove of the section bar while isDragging
handleSectionMouseMove(clientX) ==
    /\ sectionBar.isDragging
    /\ IF sectionBar.draggingSection = None
       THEN UNCHANGED arrVars
       ELSE LET drag == sectionBar.draggingSection[1]
                newBar == positionToBar(clientX)
                barDiff == newBar - drag.initialBar
            IN  IF ~HasSection(drag.id)
                THEN UNCHANGED arrVars
                ELSE LET section == SectionById(drag.id)
                     IN  CASE drag.edge = "start" ->
                                updateSection(drag.id,
                                    [startBar |-> Min(newBar, section.endBar)])
                           [] drag.edge = "end" ->
                                updateSection(drag.id,
                                    [endBar |-> Max(newBar, section.startBar)])
                           [] OTHER ->
                                LET sectionLength == drag.initialEnd - drag.initialStart
                                    newStartBar == Max(1, drag.initialStart + barDiff)
                                    newEndBar == newStartBar + sectionLength
                                IN  IF newEndBar > totalBars
                                    THEN updateSection(drag.id,
                                            [startBar |-> Max(1, totalBars - sectionLength),
                                             endBar |-> totalBars])
                                    ELSE updateSection(drag.id,
                                            [startBar |-> newStartBar,
                                             endBar |-> newEndBar])
    /\ UNCHANGED uiVars

\* onMouseUp of the section bar
handleSectionMouseUp(clientX) ==
    /\ IF sectionBar.isCreatingSection /\ sectionBar.creationStartBar # None
       THEN LET creationStartBar == sectionBar.creationStartBar[1]
                endBar == positionToBar(clientX)
                startBar == Min(creationStartBar, endBar)
                finalEndBar == Max(creationStartBar, endBar)
            IN  IF /\ Abs(endBar - creationStartBar) >= 1
                   /\ ~overlapsExisting(sections, startBar, finalEndBar)
                THEN addSection(nextSectionName, startBar, finalEndBar)
                ELSE UNCHANGED arrVars
       ELSE UNCHANGED arrVars
    /\ sectionBar' = InitialSectionBar
    /\ UNCHANGED rows

handleDeleteSection(sectionId) ==
    /\ deleteSection(sectionId)
    /\ UNCHANGED uiVars

\* the name edit of a section, committed with a non-blank name
handleSectionNameBlur(sectionId, tempSectionName) ==
    /\ updateSection(sectionId, [name |-> tempSectionName])
    /\ UNCHANGED uiVars

----------------------------------------------------------------------------
(* App.tsx: instruments, new arrangement, import *)

\* An instrument name is the sequence of its characters.
DEFAULT_INSTRUMENTS ==
    <<(<<"b", "a", "s", "s">>), (<<"g", "u", "i", "t", "a", "r">>),
      (<<"v", "o", "x">>), (<<"k", "e", "y", "s">>), (<<"p", "a", "d", "s">>),
      (<<"p", "e", "r", "c">>), (<<"d", "r", "u", "m", "s">>)>>

LowerLetters == <<"a", "b", "c", "d", "e", "f", "g", "h", "i", "j", "k", "l", "m",
                  "n", "o", "p", "q", "r", "s", "t", "u", "v", "w", "x", "y", "z">>

\* String.prototype.toLowerCase on the letters A-Z
toLowerCase(name) ==
    [k \in DOMAIN name |->
        IF name[k] \in Range(Letters) THEN LowerLetters[LetterIndex(name[k])]
        ELSE name[k]]

\* the decimal digits of n > 0, as a template literal writes them
RECURSIVE Decimal(_)
Decimal(n) ==
    LET digit == <<"0", "1", "2", "3", "4", "5", "6", "7", "8", "9">>[(n % 10) + 1]
    IN  IF n < 10 THEN <<digit>> ELSE Append(Decimal(n \div 10), digit)

\* `Instrument ${n}`
InstrumentN(n) ==
    <<"I", "n", "s", "t", "r", "u", "m", "e", "n", "t", " ">> \o Decimal(n)

\* Array.prototype.find: the first element of `array` in `wanted`, or None
find(array, wanted) ==
    LET hits == {k \in DOMAIN array : array[k] \in wanted}
    IN  IF hits = {} THEN None
        ELSE Some(array[CHOOSE k \in hits : \A j \in hits : k <= j])

\* a naming that compares the names as they are written
nextInstrumentAsWritten(insts) ==
    LET usedNames == {i.name : i \in Range(insts)}
        preset == find(DEFAULT_INSTRUMENTS, Range(DEFAULT_INSTRUMENTS) \ usedNames)
    IN  IF preset # None THEN preset[1] ELSE InstrumentN(Len(insts) + 1)

\* nextInstrument: the name addInstrument gives, from the instruments of the
\* render it was built in
nextInstrument(insts) ==
    LET usedNames == {toLowerCase(i.name) : i \in Range(insts)}
        preset == find(DEFAULT_INSTRUMENTS, Range(DEFAULT_INSTRUMENTS) \ usedNames)
    IN  IF preset # None THEN preset[1] ELSE InstrumentN(Len(insts) + 1)

\* colorUtils.ts
COLOR_PALETTE ==
    <<"#4285F4", "#EA4335", "#34A853", "#FBBC05", "#8F44AD", "#F39C12",
      "#16A085", "#D81B60", "#607D8B", "#FF5722", "#00BCD4", "#009688">>

\* generateRandomColor, as far as the model follows it: a colour far from the
\* palette, and one of the palette (accepted once the attempts are used up)
RandomColors == {"#000000", "#4285F4"}

\* a colour taken from the palette by the count of the colours in use
generateColorByCount(existingColors) ==
    {COLOR_PALETTE[(Len(existingColors) % Len(COLOR_PALETTE)) + 1]}

\* generateUniqueColor(existingColors): the colours it can return
generateUniqueColor(existingColors) ==
    LET availableColor == find(COLOR_PALETTE,
                               Range(COLOR_PALETTE) \ Range(existingColors))
    IN  IF availableColor # None THEN {availableColor[1]} ELSE RandomColors

addInstrument ==
    \E color \in generateUniqueColor([k \in DOMAIN instruments |-> instruments[k].color]) :
        /\ instruments' = Append(instruments,
                [id |-> uuidv4, name |-> nextInstrument(instruments),
                 color |-> color, activities |-> <<>>])
        /\ rows' = MountRows(instruments')
        /\ UNCHANGED <<arrangementName, totalBars, sections, sectionBar>>

updateInstrumentName(instrumentId, name) ==
    /\ instruments' = [k \in DOMAIN instruments |->
            IF instruments[k].id = instrumentId
            THEN [instruments[k] EXCEPT !.name = name]
            ELSE instruments[k]]
    /\ UNCHANGED <<arrangementName, totalBars, sections, uiVars>>

createNewArrangement ==
    /\ arrangementName' = InitialArrangement.name
    /\ totalBars' = InitialArrangement.totalBars
    /\ sections' = InitialArrangement.sections
    /\ instruments' = InitialArrangement.instruments
    /\ rows' = MountRows(instruments')
    /\ UNCHANGED sectionBar

updateArrangementName(newName) ==
    /\ arrangementName' = newName
    /\ UNCHANGED <<totalBars, sections, instruments, uiVars>>

----------------------------------------------------------------------------
(* JSON.  A JSON text is a syntax error or the document it denotes; a       *)
(* document is a value tagged with its type.  The elements of the sections  *)
(* and instruments arrays are written as the objects they are: an object    *)
(* has exactly the members its text has.                                    *)

Undefined == [t |-> "undefined"]
JsonNull == [t |-> "null"]
JsonString(s) == [t |-> "string", v |-> s]
JsonNumber(n) == [t |-> "number", v |-> n]
JsonArray(a) == [t |-> "array", v |-> a]
JsonObject(o) == [t |-> "object", v |-> o]

\* a text JSON.parse throws a SyntaxError on; the text of a document
SyntaxError == [syntax |-> "error"]
Document(value) == [syntax |-> "ok", value |-> value]

\* value.key, for a value that is neither null nor undefined
Member(value, key) ==
    IF value.t = "object" /\ key \in DOMAIN value.v THEN value.v[key] ELSE Undefined

\* typeof value
TypeOf(value) ==
    IF value.t \in {"null", "array", "object"} THEN "object" ELSE value.t

\* Array.isArray(value)
IsArray(value) == value.t = "array"

\* JSON.stringify of an activity: a member whose value is undefined is left out
stringifyActivityWithoutVariation(a) ==
    [id |-> a.id, startBar |-> a.startBar, endBar |-> a.endBar]

stringifyActivity(a) ==
    IF a.variation = None
    THEN [id |-> a.id, startBar |-> a.startBar, endBar |-> a.endBar]
    ELSE [id |-> a.id, startBar |-> a.startBar, endBar |-> a.endBar,
          variation |-> a.variation[1]]

\* the activity a parsed object stands for: a missing member reads undefined
parseActivity(o) ==
    [id |-> o.id, startBar |-> o.startBar, endBar |-> o.endBar,
     variation |-> IF "variation" \in DOMAIN o THEN Some(o.variation) ELSE None]

\* JSON.stringify(arrangementData, null, 2)
JSONstringify(data) ==
    Document(JsonObject(
        [name |-> JsonString(data.name),
         totalBars |-> JsonNumber(data.totalBars),
         sections |-> JsonArray(data.sections),
         instruments |-> JsonArray([k \in DOMAIN data.instruments |->
            [id |-> data.instruments[k].id,
             name |-> data.instruments[k].name,
             color |-> data.instruments[k].color,
             activities |-> [n \in DOMAIN data.instruments[k].activities |->
                stringifyActivity(data.instruments[k].activities[n])]]])]))

\* the instruments a parsed instruments array stands for
parseInstruments(array) ==
    [k \in DOMAIN array |->
        [id |-> array[k].id,
         name |-> array[k].name,
         color |-> array[k].color,
         activities |-> [n \in DOMAIN array[k].activities |->
            parseActivity(array[k].activities[n])]]]

----------------------------------------------------------------------------
(* App.tsx: export and import *)

ArrangementData ==
    [name |-> arrangementName, totalBars |-> totalBars, sections |-> sections,
     instruments |-> instruments]

\* exportArrangement: the browser downloads the text; `data` records the
\* arrangement the text was made from
exportArrangement ==
    /\ download' = Some([file |-> JSONstringify(ArrangementData),
                         data |-> ArrangementData])
    /\ UNCHANGED <<arrVars, uiVars>>

\* the arrangements of the files offered to the import
ImportFiles ==
    {[totalBars |-> 79,
      sections |-> <<[id |-> 92, name |-> "Verse", startBar |-> 5, endBar |-> 8],
                     [id |-> 91, name |-> "Intro", startBar |-> 1, endBar |-> 4]>>,
      instruments |-> <<[id |-> 90, name |-> <<"B", "a", "s", "s">>,
                         color |-> "#EA4335", activities |->
                            <<[id |-> 93, startBar |-> 70, endBar |-> 75,
                               variation |-> None]>>]>>]}

\* ... and their texts
ValidTexts ==
    {JSONstringify([name |-> "Song", totalBars |-> f.totalBars,
                    sections |-> f.sections, instruments |-> f.instruments]) :
        f \in ImportFiles}

\* texts that are not JSON, or not the JSON of an arrangement
InvalidTexts ==
    <<SyntaxError,
     Document(JsonNull),
     Document(JsonNumber(5)),
     Document(JsonArray(<<>>)),
     Document(JsonObject([totalBars |-> JsonNumber(32), sections |-> JsonArray(<<>>),
                          instruments |-> JsonArray(<<>>)])),
     Document(JsonObject([name |-> JsonNumber(1), totalBars |-> JsonNumber(32),
                          sections |-> JsonArray(<<>>), instruments |-> JsonArray(<<>>)])),
     Document(JsonObject([name |-> JsonString("Song"), totalBars |-> JsonString("32"),
                          sections |-> JsonArray(<<>>), instruments |-> JsonArray(<<>>)])),
     Document(JsonObject([name |-> JsonString("Song"), totalBars |-> JsonNull,
                          sections |-> JsonArray(<<>>), instruments |-> JsonArray(<<>>)])),
     Document(JsonObject([name |-> JsonString("Song"), totalBars |-> JsonNumber(32),
                          sections |-> JsonObject(<<>>), instruments |-> JsonArray(<<>>)])),
     Document(JsonObject([name |-> JsonString("Song"), totalBars |-> JsonNumber(32),
                          sections |-> JsonArray(<<>>), instruments |-> JsonNull])),
     Document(JsonObject([name |-> JsonString("Song"), totalBars |-> JsonNumber(32),
                          sections |-> JsonArray(<<>>)]))>>

\* the try block reaches setArrangementData: JSON.parse returns, reading a
\* member of the parsed value does not throw, the structure is valid
Accepted(jsonData) ==
    /\ jsonData.syntax = "ok"
    /\ jsonData.value.t # "null"
    /\ TypeOf(Member(jsonData.value, "name")) = "string"
    /\ TypeOf(Member(jsonData.value, "totalBars")) = "number"
    /\ IsArray(Member(jsonData.value, "sections"))
    /\ IsArray(Member(jsonData.value, "instruments"))

\* an import that empties the arrangement when it rejects the text
importArrangementClearing(jsonData) ==
    /\ IF Accepted(jsonData)
       THEN /\ arrangementName' = Member(jsonData.value, "name").v
            /\ sections' = Member(jsonData.value, "sections").v
            /\ instruments' = parseInstruments(Member(jsonData.value, "instruments").v)
            /\ totalBars' = calculateRequiredBars(ClosureArrangement,
                                Member(jsonData.value, "totalBars").v)
       ELSE /\ arrangementName' = InitialArrangement.name
            /\ sections' = InitialArrangement.sections
            /\ instruments' = InitialArrangement.instruments
            /\ totalBars' = InitialArrangement.totalBars
    /\ rows' = MountRows(instruments')
    /\ UNCHANGED sectionBar

\* importArrangement; the deferred calculateRequiredBars() is the one of the
\* first render
importArrangement(jsonData) ==
    /\ IF Accepted(jsonData)
       THEN /\ arrangementName' = Member(jsonData.value, "name").v
            /\ sections' = Member(jsonData.value, "sections").v
            /\ instruments' = parseInstruments(Member(jsonData.value, "instruments").v)
            /\ totalBars' = calculateRequiredBars(ClosureArrangement,
                                Member(jsonData.value, "totalBars").v)
       ELSE UNCHANGED arrVars
    /\ rows' = MountRows(instruments')
    /\ UNCHANGED sectionBar

----------------------------------------------------------------------------
(* Footer.tsx *)

\* the bar counts the footer's select offers
possibleBarCounts == {16, 24, 32, 48, 64}

handleBarCountChange(newBarCount) ==
    /\ updateTotalBars(newBarCount)
    /\ UNCHANGED uiVars

----------------------------------------------------------------------------
(* MusicPlayer.tsx (the component of lines 404-1215).  Times are whole      *)
(* seconds.  `player` holds the refs, the React state of the last render,   *)
(* the animation frames and the timeouts that are pending, and the clock    *)
(* of the AudioContext.  A handler is a function from the player to the     *)
(* player; it reads React state from the closure c of the render that       *)
(* built it and refs from the player.                                       *)

InitialPlayer ==
    [audioContextRef |-> FALSE,     \* an AudioContext exists
     audioBufferRef |-> None,       \* Some(duration of the decoded buffer)
     sourceNodeRef |-> None,        \* Some([offset, startedAt]) : a started source
     startTimeRef |-> 0,
     pausedTimeRef |-> 0,
     rafIdRef |-> None,
     isPlaying |-> FALSE,
     currentTime |-> 0,
     isDragging |-> FALSE,
     beatInfo |-> None,             \* Some(barPositions)
     currentBar |-> None,           \* Some(0-based bar shown beside the tempo)
     frames |-> {},                 \* requested animation frames: [id, isDragging, beatInfo]
     timeouts |-> <<>>,             \* setTimeout(() => playAudio(), 10), oldest first
     contextTime |-> 0,             \* audioContext.currentTime
     activeSources |-> 0,           \* source nodes started and not stopped
     audioFile |-> None,            \* the audioFile prop: Some(file)
     bpm |-> None,
     isBpmAnalyzing |-> FALSE,
     decoding |-> {},               \* files whose initWebAudio has not settled
     analyses |-> {},               \* analyzeFullBuffer promises: [file, backup]
     backupTimeout |-> FALSE,       \* the backup analysis timer is pending
     looping |-> FALSE]             \* a loop of a handler does not end

\* the React state a callback built by a render of p closes over
Closure(p) ==
    [isPlaying |-> p.isPlaying, isDragging |-> p.isDragging,
     currentTime |-> p.currentTime, beatInfo |-> p.beatInfo]

cancelAnimationFrame(p, id) ==
    [p EXCEPT !.frames = {f \in @ : f.id # id}]

\* rafIdRef.current = requestAnimationFrame(updateWebAudioTime), the callback
\* being the updateWebAudioTime of closure c
requestAnimationFrame(p, c) ==
    LET taken == {f.id : f \in p.frames} \cup Range(p.rafIdRef)
        id == CHOOSE n \in 1..(Cardinality(taken) + 1) : n \notin taken
    IN  [p EXCEPT !.frames = @ \cup {[id |-> id, isDragging |-> c.isDragging,
                                       beatInfo |-> c.beatInfo]},
                  !.rafIdRef = Some(id)]

\* a cancel that forgets the id of the frame and leaves the frame requested
cancelPollingKeepFrame(p) ==
    [p EXCEPT !.rafIdRef = None]

\* if (rafIdRef.current) { cancelAnimationFrame(rafIdRef.current); rafIdRef.current = null }
cancelPolling(p) ==
    IF p.rafIdRef # None
    THEN [cancelAnimationFrame(p, p.rafIdRef[1]) EXCEPT !.rafIdRef = None]
    ELSE p

\* if (sourceNodeRef.current) { sourceNodeRef.current.stop(); ...disconnect() }
stopSource(p) ==
    IF p.sourceNodeRef # None THEN [p EXCEPT !.activeSources = @ - 1] ELSE p

stopWebAudio(p) ==
    [cancelPolling([stopSource(p) EXCEPT !.sourceNodeRef = None])
        EXCEPT !.isPlaying = FALSE]

\* the position the refs stand for at the clock of the context
currentAudioTime(p) == p.contextTime - p.startTimeRef + p.pausedTimeRef

\* beatPositions.findIndex(time => time > t): a 0-based index, or -1
findIndexAfter(beatPositions, t) ==
    LET later == {k \in DOMAIN beatPositions : beatPositions[k] > t}
    IN  IF later = {}
        THEN 0 - 1
        ELSE (CHOOSE k \in later : \A j \in later : k <= j) - 1

\* the current bar of updateWebAudioTime: setCurrentBar if a beat index is found
setCurrentBar(p, grid, t) ==
    LET currentBeatIndex == findIndexAfter(grid.beatPositions, t) - 1
    IN  IF currentBeatIndex >= 0
        THEN [p EXCEPT !.currentBar = Some(currentBeatIndex \div grid.beatsPerBar)]
        ELSE p

updateWebAudioTime(p, c) ==
    IF ~p.audioContextRef \/ p.audioBufferRef = None
    THEN p
    ELSE IF currentAudioTime(p) >= p.audioBufferRef[1]
         THEN [stopWebAudio(p) EXCEPT !.currentTime = 0, !.isPlaying = FALSE]
         ELSE requestAnimationFrame(
                  IF ~c.isDragging
                  THEN LET shown == [p EXCEPT !.currentTime = currentAudioTime(p)]
                       IN  IF c.beatInfo # None
                           THEN setCurrentBar(shown, c.beatInfo[1], currentAudioTime(p))
                           ELSE shown
                  ELSE p,
                  c)

\* a pause that takes the time played since the last start for the position
pauseAudioFromStart(p, c) ==
    IF ~p.audioContextRef \/ ~c.isPlaying
    THEN p
    ELSE [cancelPolling([stopSource(p) EXCEPT !.pausedTimeRef = p.contextTime - p.startTimeRef,
                                              !.sourceNodeRef = None])
            EXCEPT !.isPlaying = FALSE]

\* pausedTimeRef.current = the position played to; stop the source
pauseAudio(p, c) ==
    IF ~p.audioContextRef \/ ~c.isPlaying
    THEN p
    ELSE [cancelPolling([stopSource(p) EXCEPT !.pausedTimeRef = currentAudioTime(p),
                                              !.sourceNodeRef = None])
            EXCEPT !.isPlaying = FALSE]

\* a playAudio that starts the new source beside the one that plays
playAudioBesidePrevious(p, c) ==
    IF ~p.audioContextRef \/ p.audioBufferRef = None
    THEN p
    ELSE LET offset == IF c.isDragging THEN c.currentTime ELSE p.pausedTimeRef
             started == [p EXCEPT
                            !.sourceNodeRef = Some([offset |-> offset,
                                                    startedAt |-> p.contextTime]),
                            !.activeSources = @ + 1,
                            !.startTimeRef = p.contextTime]
             cancelled == IF started.rafIdRef # None
                          THEN cancelAnimationFrame(started, started.rafIdRef[1])
                          ELSE started
         IN  [requestAnimationFrame(cancelled, c) EXCEPT !.isPlaying = TRUE]

playAudio(p, c) ==
    IF ~p.audioContextRef \/ p.audioBufferRef = None
    THEN p
    ELSE LET offset == IF c.isDragging THEN c.currentTime ELSE p.pausedTimeRef
             started == [stopSource(p) EXCEPT
                            !.sourceNodeRef = Some([offset |-> offset,
                                                    startedAt |-> p.contextTime]),
                            !.activeSources = @ + 1,
                            !.startTimeRef = p.contextTime]
             cancelled == IF started.rafIdRef # None
                          THEN cancelAnimationFrame(started, started.rafIdRef[1])
                          ELSE started
         IN  [requestAnimationFrame(cancelled, c) EXCEPT !.isPlaying = TRUE]

\* if (isPlaying) { pauseAudio(); setTimeout(() => playAudio(), 10) }
resumeAfterSeek(p, c) ==
    IF c.isPlaying
    THEN [pauseAudio(p, c) EXCEPT !.timeouts = Append(@, c)]
    ELSE p

\* a seek that is dropped while a deferred resume is pending
seekToUnlessInFlight(p, c, time) ==
    IF p.timeouts # <<>>
    THEN p
    ELSE resumeAfterSeek([p EXCEPT !.pausedTimeRef = time, !.currentTime = time], c)

\* pausedTimeRef.current = time; setCurrentTime(time); resume if playing
seekTo(p, c, time) ==
    resumeAfterSeek([p EXCEPT !.pausedTimeRef = time, !.currentTime = time], c)

\* the numbers that are no finite number, named by integers no tempo has
Infinity == 1000000
NaN == 0 - Infinity

\* the beat grid without Math.max(1, ...): a buffer without audio has no beat
calculateBeatPositionsNoFirstBeat(p, detectedBpm) ==
    IF p.audioBufferRef = None \/ detectedBpm <= 0 \/ p.audioBufferRef[1] = 0
    THEN p
    ELSE LET totalBeats == CeilDiv(p.audioBufferRef[1] * detectedBpm, 60)
         IN  [p EXCEPT !.beatInfo = Some(
                 [beatPositions |-> [k \in 1..totalBeats |-> ((k - 1) * 60) \div detectedBpm],
                  barPositions |-> [k \in 1..CeilDiv(totalBeats, BeatsPerBar) |->
                                      ((k - 1) * BeatsPerBar * 60) \div detectedBpm],
                  beatsPerBar |-> BeatsPerBar])]

\* calculateBeatPositions(detectedBpm): the beat grid of the decoded buffer.
\* For Infinity, secondsPerBeat is 0 and totalBeats is Infinity (NaN for a
\* buffer of duration 0, and then both loops end at once with empty lists):
\* i < totalBeats never fails and the first loop pushes without end.
calculateBeatPositions(p, detectedBpm) ==
    IF p.audioBufferRef = None \/ detectedBpm = NaN \/ detectedBpm <= 0
    THEN p
    ELSE IF detectedBpm = Infinity
    THEN IF p.audioBufferRef[1] > 0 THEN [p EXCEPT !.looping = TRUE] ELSE p
    ELSE LET audioDuration == p.audioBufferRef[1]
             totalBeats == Max(1, CeilDiv(audioDuration * detectedBpm, 60))
             \* i * secondsPerBeat, in whole seconds
             beatPositions == [k \in 1..totalBeats |-> ((k - 1) * 60) \div detectedBpm]
             barCount == CeilDiv(totalBeats, BeatsPerBar)
             barPositions == [k \in 1..barCount |->
                                 ((k - 1) * BeatsPerBar * 60) \div detectedBpm]
         IN  [p EXCEPT !.beatInfo = Some([beatPositions |-> beatPositions,
                                          barPositions |-> barPositions,
                                          beatsPerBar |-> BeatsPerBar])]

\* seekToBar with a slip: the index is barIndex - shift, the extrapolation
\* counts its steps from bar n - back (or stays on the last bar), and the
\* estimate without a grid divides the duration by `bars`
seekToBarWithSlip(p, c, barIndex, shift, back, stay, bars) ==
    LET zeroBasedIndex == barIndex - shift
    IN  IF c.beatInfo = None \/ Len(c.beatInfo[1].barPositions) = 0
        THEN IF p.audioBufferRef # None /\ p.audioBufferRef[1] > 0
             THEN seekTo(p, c, (zeroBasedIndex * p.audioBufferRef[1]) \div bars)
             ELSE p
        ELSE LET barPositions == c.beatInfo[1].barPositions
                 n == Len(barPositions)
             IN  IF zeroBasedIndex >= n /\ n >= 2
                 THEN seekTo(p, c, IF stay THEN barPositions[n]
                          ELSE barPositions[n]
                          + (zeroBasedIndex - (n - back)) * (barPositions[n] - barPositions[n - 1]))
                 ELSE IF zeroBasedIndex < 0 \/ zeroBasedIndex >= n
                      THEN p
                      ELSE seekTo(p, c, barPositions[zeroBasedIndex + 1])

\* the argument taken for the 0-based index
seekToBarZeroBased(p, c, barIndex) ==
    seekToBarWithSlip(p, c, barIndex, 0, 1, FALSE, DefaultBarCount)

\* the extrapolation a bar short
seekToBarStepShort(p, c, barIndex) ==
    seekToBarWithSlip(p, c, barIndex, 1, 0, FALSE, DefaultBarCount)

\* a bar past the grid taken for the last bar of the grid
seekToBarLastKnown(p, c, barIndex) ==
    seekToBarWithSlip(p, c, barIndex, 1, 1, TRUE, DefaultBarCount)

\* the estimate made with the bars of the arrangement
seekToBarOfTotalBars(p, c, barIndex) ==
    seekToBarWithSlip(p, c, barIndex, 1, 1, FALSE, totalBars)

seekToBar(p, c, barIndex) ==
    LET zeroBasedIndex == barIndex - 1
    IN  IF c.beatInfo = None \/ Len(c.beatInfo[1].barPositions) = 0
        THEN IF p.audioBufferRef # None /\ p.audioBufferRef[1] > 0
             THEN seekTo(p, c, (zeroBasedIndex * p.audioBufferRef[1]) \div DefaultBarCount)
             ELSE p
        ELSE LET barPositions == c.beatInfo[1].barPositions
                 n == Len(barPositions)
             IN  IF zeroBasedIndex >= n /\ n >= 2
                 THEN seekTo(p, c, barPositions[n]
                          + (zeroBasedIndex - (n - 1)) * (barPositions[n] - barPositions[n - 1]))
                 ELSE IF zeroBasedIndex < 0 \/ zeroBasedIndex >= n
                      THEN p
                      ELSE seekTo(p, c, barPositions[zeroBasedIndex + 1])

seekToTime(p, c, time) ==
    IF p.audioBufferRef = None
    THEN p
    ELSE seekTo(p, c, Max(0, Min(time, p.audioBufferRef[1])))

handlePlayPause(p, c) ==
    IF c.isPlaying THEN pauseAudio(p, c) ELSE playAudio(p, c)

\* a stop that leaves the paused offset where it is
handleStopKeepingOffset(p) ==
    [stopWebAudio(p) EXCEPT !.currentTime = 0]

handleStop(p) ==
    [stopWebAudio(p) EXCEPT !.pausedTimeRef = 0, !.currentTime = 0]

handleScrubStart(p) ==
    [p EXCEPT !.isDragging = TRUE]

handleScrubEnd(p, c) ==
    LET q == [p EXCEPT !.isDragging = FALSE, !.pausedTimeRef = c.currentTime]
    IN  IF c.isPlaying THEN playAudio(q, c) ELSE q

handleTimeChange(p, newTime) ==
    [p EXCEPT !.currentTime = newTime]

\* useEffect(..., [isPlaying, updateWebAudioTime]) after the render of p that
\* follows the render of `before`: updateWebAudioTime is rebuilt when
\* isPlaying, isDragging or beatInfo changed
pollingEffect(before, p) ==
    IF /\ before.isPlaying = p.isPlaying
       /\ before.isDragging = p.isDragging
       /\ before.beatInfo = p.beatInfo
    THEN p
    ELSE IF p.isPlaying
         THEN updateWebAudioTime(cancelPolling(p), Closure(p))
         ELSE cancelPolling(p)

\* the backup analysis effect: useEffect(..., [audioFile, audioBufferRef.current,
\* bpm, isBpmAnalyzing, ...]) clears its timer and sets it again if no tempo
\* is known and no analysis is announced
backupEffect(before, p) ==
    IF /\ before.audioFile = p.audioFile
       /\ before.audioBufferRef = p.audioBufferRef
       /\ before.bpm = p.bpm
       /\ before.isBpmAnalyzing = p.isBpmAnalyzing
    THEN p
    ELSE [p EXCEPT !.backupTimeout = /\ p.audioFile # None
                                     /\ p.audioBufferRef # None
                                     /\ ~p.isBpmAnalyzing
                                     /\ p.bpm = None]

\* the renders and effects that follow a handler, until the state is at rest
Render(before, p) ==
    backupEffect(before, pollingEffect(p, pollingEffect(before, p)))

\* The audioFile effect for a file (a file is named by the duration of its
\* audio): the cleanup of the effect's last run, the resets, and initWebAudio
\* up to the promise of the decoding; the context is closed and a new one,
\* whose clock starts at 0, is created.
audioFileEffect(p, file) ==
    [cancelPolling(p) EXCEPT !.audioFile = Some(file),
                             !.bpm = None, !.beatInfo = None,
                             !.currentTime = 0, !.isPlaying = FALSE,
                             !.audioContextRef = TRUE, !.contextTime = 0,
                             !.decoding = @ \cup {file}]

\* decodeAudioData resolves: the buffer is stored and the direct analysis of
\* the buffer is started
initWebAudioResolved(p, file) ==
    [p EXCEPT !.decoding = @ \ {file},
              !.audioBufferRef = Some(file),
              !.analyses = @ \cup {[file |-> file, backup |-> FALSE]}]

\* the try block of initWebAudio throws
initWebAudioRejected(p, file) ==
    [p EXCEPT !.decoding = @ \ {file}, !.audioBufferRef = None]

\* the backup timer fires after its 2000 ms
backupAnalysis(p) ==
    IF p.audioBufferRef = None
    THEN [p EXCEPT !.backupTimeout = FALSE]
    ELSE [p EXCEPT !.backupTimeout = FALSE,
                   !.isBpmAnalyzing = TRUE,
                   !.analyses = @ \cup {[file |-> p.audioBufferRef[1], backup |-> TRUE]}]

\* analyzeFullBuffer resolves with a tempo: the .then and the .finally of the
\* direct and of the backup analysis
analysisResolved(p, a, detectedBpm) ==
    [calculateBeatPositions([p EXCEPT !.analyses = @ \ {a},
                                      !.bpm = Some(detectedBpm)], detectedBpm)
        EXCEPT !.isBpmAnalyzing = FALSE]

\* analyzeFullBuffer resolves with the tempo of its first candidate, any
\* number: NaN is refused before Math.round, which leaves Infinity as it is
tempoResolved(p, a, tempo) ==
    IF tempo = NaN
    THEN [p EXCEPT !.analyses = @ \ {a}, !.isBpmAnalyzing = FALSE]
    ELSE analysisResolved(p, a, tempo)

\* the audioFile effect for a file that is decoded before the next event
loadAudioFile(p, duration) ==
    initWebAudioResolved(audioFileEffect(p, duration), duration)

----------------------------------------------------------------------------
(* The instrument track: the pointer handlers of InstrumentRow and the      *)
(* creation of sections by a click on the timeline.                         *)

vars == <<arrangementName, totalBars, sections, instruments, rows, sectionBar, player,
          download, gesturesLeft, advancesLeft, lastOp>>

Init ==
    /\ arrangementName = InitialArrangement.name
    /\ totalBars = InitialArrangement.totalBars
    /\ sections = InitialArrangement.sections
    /\ instruments = InitialArrangement.instruments
    /\ rows = <<>>
    /\ sectionBar = InitialSectionBar
    /\ player = InitialPlayer
    /\ download = None
    /\ gesturesLeft = MaxGestures
    /\ advancesLeft = MaxAdvances
    /\ lastOp = Op("init", 0)

Edges == {"start", "end", "move"}
ActivityCount(r) == Len(Activities(r))

\* no press is in progress: the pointer's button is up
PointerFree ==
    /\ \A r \in DOMAIN rows : ~rows[r].isDragging /\ ~rows[r].isCreatingActivity
    /\ ~sectionBar.isDragging /\ ~sectionBar.isCreatingSection

\* a press or a click begins a gesture
Gesture == PointerFree /\ gesturesLeft > 0 /\ gesturesLeft' = gesturesLeft - 1
NoGesture == UNCHANGED gesturesLeft

\* the tracks of different instruments share no state: the model follows one
AddInstrument ==
    /\ instruments = <<>>
    /\ addInstrument
    /\ NoGesture
    /\ lastOp' = Op("addInstrument", 0)
    /\ UNCHANGED <<playerVars, download>>

CreateNewArrangement ==
    /\ createNewArrangement
    /\ NoGesture
    /\ lastOp' = Op("createNewArrangement", 0)
    /\ UNCHANGED <<playerVars, download>>

\* the import of a file that holds an arrangement
ImportArrangement ==
    \E jsonData \in ValidTexts :
        /\ importArrangement(jsonData)
        /\ NoGesture
        /\ lastOp' = Op("importArrangement", 0)
        /\ UNCHANGED <<playerVars, download>>

\* the import of the k-th of the files that hold something else
ImportInvalid ==
    \E k \in DOMAIN InvalidTexts :
        /\ importArrangement(InvalidTexts[k])
        /\ Gesture
        /\ lastOp' = Op("importArrangement", k)
        /\ UNCHANGED <<playerVars, download>>

\* the import of the file the last export has produced
ImportDownload ==
    /\ download # None
    /\ importArrangement(download[1].file)
    /\ Gesture
    /\ lastOp' = Op("importArrangement", 0 - 1)
    /\ UNCHANGED <<playerVars, download>>

ExportArrangement ==
    /\ exportArrangement
    /\ Gesture
    /\ lastOp' = Op("exportArrangement", 0)
    /\ UNCHANGED playerVars

ArrangementNames == {"Song"}

ArrangementNameChange ==
    \E tempName \in ArrangementNames :
        /\ updateArrangementName(tempName)
        /\ Gesture
        /\ lastOp' = Op("handleNameBlur", 0)
        /\ UNCHANGED <<playerVars, download>>

\* the bar counts chosen in the footer
BarCounts == {16}

BarCountChange ==
    \E newBarCount \in BarCounts \cap possibleBarCounts :
        /\ handleBarCountChange(newBarCount)
        /\ Gesture
        /\ lastOp' = Op("handleBarCountChange", newBarCount)
        /\ UNCHANGED <<playerVars, download>>

ActivityMouseDown ==
    \E r \in DOMAIN rows : \E a \in Range(Activities(r)) : \E edge \in Edges :
        \E x \in BoxXs(a, edge) :
            /\ handleActivityMouseDown(r, a.id, edge, x)
            /\ Gesture
            /\ lastOp' = Op("handleActivityMouseDown", x)
            /\ UNCHANGED <<playerVars, download>>

ActivityWheel ==
    \E r \in DOMAIN rows : \E a \in Range(Activities(r)) :
        \E direction \in {0 - 1, 1} : \E throttled \in BOOLEAN :
            /\ handleActivityWheel(r, a.id, direction, throttled)
            /\ Gesture
            /\ lastOp' = Op("handleActivityWheel", direction)
            /\ UNCHANGED <<playerVars, download>>

MouseMove ==
    \E r \in DOMAIN rows : \E x \in InsideXs :
        /\ handleMouseMove(r, x)
        /\ NoGesture
        /\ lastOp' = Op("handleMouseMove", x)
        /\ UNCHANGED <<playerVars, download>>

GlobalMouseMove ==
    \E r \in DOMAIN rows : \E x \in DocumentXs :
        /\ handleGlobalMouseMove(r, x)
        /\ NoGesture
        /\ lastOp' = Op("handleGlobalMouseMove", x)
        /\ UNCHANGED <<playerVars, download>>

MouseUp ==
    \E r \in DOMAIN rows :
        /\ handleMouseUp(r)
        /\ NoGesture
        /\ lastOp' = Op("handleMouseUp", 0)
        /\ UNCHANGED <<playerVars, download>>

GlobalMouseUp ==
    \E r \in DOMAIN rows :
        /\ handleGlobalMouseUp(r)
        /\ NoGesture
        /\ lastOp' = Op("handleGlobalMouseUp", 0)
        /\ UNCHANGED <<playerVars, download>>

RowMouseDown ==
    \E r \in DOMAIN rows : \E x \in InsideXs :
        /\ ActivityCount(r) < MaxActivities
        /\ handleRowMouseDown(r, x)
        /\ Gesture
        /\ lastOp' = Op("handleRowMouseDown", x)
        /\ UNCHANGED <<playerVars, download>>

CreationMouseUp ==
    \E r \in DOMAIN rows : \E x \in InsideXs :
        /\ handleCreationMouseUp(r, x)
        /\ NoGesture
        /\ lastOp' = Op("handleCreationMouseUp", x)
        /\ UNCHANGED <<playerVars, download>>

RowClick ==
    \E r \in DOMAIN rows : \E x \in InsideXs :
        /\ ActivityCount(r) < MaxActivities
        /\ handleRowClick(r, x)
        /\ Gesture
        /\ lastOp' = Op("handleRowClick", x)
        /\ UNCHANGED <<playerVars, download>>

DeleteActivity ==
    \E r \in DOMAIN rows : \E a \in Range(Activities(r)) :
        /\ handleDeleteActivity(r, a.id)
        /\ NoGesture
        /\ lastOp' = Op("handleDeleteActivity", 0)
        /\ UNCHANGED <<playerVars, download>>

TimelineMouseDown ==
    \E x \in InsideXs :
        /\ Len(sections) < MaxSections
        /\ handleTimelineMouseDown(x)
        /\ Gesture
        /\ lastOp' = Op("handleTimelineMouseDown", x)
        /\ UNCHANGED <<playerVars, download>>

TimelineClick ==
    \E x \in InsideXs :
        /\ Len(sections) < MaxSections
        /\ handleTimelineClick(x)
        /\ Gesture
        /\ lastOp' = Op("handleTimelineClick", x)
        /\ UNCHANGED <<playerVars, download>>

SectionMouseDown ==
    \E s \in Range(sections) : \E edge \in Edges : \E x \in BoxXs(s, edge) :
        /\ handleMouseDown(s.id, edge, x)
        /\ Gesture
        /\ lastOp' = Op("handleMouseDown", x)
        /\ UNCHANGED <<playerVars, download>>

SectionMouseMove ==
    \E x \in InsideXs :
        /\ handleSectionMouseMove(x)
        /\ NoGesture
        /\ lastOp' = Op("handleSectionMouseMove", x)
        /\ UNCHANGED <<playerVars, download>>

SectionMouseUp ==
    \E x \in InsideXs :
        /\ handleSectionMouseUp(x)
        /\ NoGesture
        /\ lastOp' = Op("handleSectionMouseUp", x)
        /\ UNCHANGED <<playerVars, download>>

DeleteSection ==
    \E s \in Range(sections) :
        /\ handleDeleteSection(s.id)
        /\ NoGesture
        /\ lastOp' = Op("handleDeleteSection", 0)
        /\ UNCHANGED <<playerVars, download>>

\* the handlers of the instrument track, and the timeline click that makes
\* the sections a row click spans
Next ==
    \/ AddInstrument
    \/ ActivityMouseDown
    \/ MouseMove
    \/ GlobalMouseMove
    \/ MouseUp
    \/ GlobalMouseUp
    \/ RowMouseDown
    \/ CreationMouseUp
    \/ RowClick
    \/ DeleteActivity
    \/ TimelineClick

Spec == Init /\ [][Next]_vars

----------------------------------------------------------------------------
(* The editor: both tracks.  InitShort is Init with one gesture less.       *)

InitShort ==
    /\ arrangementName = InitialArrangement.name
    /\ totalBars = InitialArrangement.totalBars
    /\ sections = InitialArrangement.sections
    /\ instruments = InitialArrangement.instruments
    /\ rows = <<>>
    /\ sectionBar = InitialSectionBar
    /\ player = InitialPlayer
    /\ download = None
    /\ gesturesLeft = MaxGestures - 1
    /\ advancesLeft = MaxAdvances
    /\ lastOp = Op("init", 0)

NextEditor ==
    \/ AddInstrument
    \/ ActivityMouseDown
    \/ MouseMove
    \/ GlobalMouseMove
    \/ MouseUp
    \/ GlobalMouseUp
    \/ RowMouseDown
    \/ CreationMouseUp
    \/ RowClick
    \/ DeleteActivity
    \/ TimelineMouseDown
    \/ TimelineClick
    \/ SectionMouseDown
    \/ SectionMouseMove
    \/ SectionMouseUp
    \/ DeleteSection

SpecEditor == InitShort /\ [][NextEditor]_vars

----------------------------------------------------------------------------
(* New and Import, followed by clicks on the tracks, the drag of a section  *)
(* and the deletion of intervals.                                           *)

NextFiles ==
    \/ CreateNewArrangement
    \/ ImportArrangement
    \/ RowClick
    \/ DeleteActivity
    \/ TimelineClick
    \/ SectionMouseDown
    \/ SectionMouseMove
    \/ SectionMouseUp
    \/ DeleteSection

SpecFiles == InitShort /\ [][NextFiles]_vars

----------------------------------------------------------------------------
(* Export and import: an arrangement is built by clicks or imported, its    *)
(* activities are given variations, its name and its bar count are changed; *)
(* it is exported, and files are imported.  InitLong is Init with one       *)
(* gesture more; a wheel step, an edit of the name or of the bar count, an  *)
(* export and the choice of a file to import are gestures.                  *)

InitLong ==
    /\ arrangementName = InitialArrangement.name
    /\ totalBars = InitialArrangement.totalBars
    /\ sections = InitialArrangement.sections
    /\ instruments = InitialArrangement.instruments
    /\ rows = <<>>
    /\ sectionBar = InitialSectionBar
    /\ player = InitialPlayer
    /\ download = None
    /\ gesturesLeft = MaxGestures + 1
    /\ advancesLeft = MaxAdvances
    /\ lastOp = Op("init", 0)

NextExchange ==
    \/ AddInstrument
    \/ RowClick
    \/ ActivityWheel
    \/ ArrangementNameChange
    \/ BarCountChange
    \/ CreateNewArrangement
    \/ ExportArrangement
    \/ ImportArrangement
    \/ ImportInvalid
    \/ ImportDownload

SpecExchange == InitLong /\ [][NextExchange]_vars

----------------------------------------------------------------------------
(* The player: one audio file, its analysis, the transport buttons, the     *)
(* seeks, the scrubber, the animation frames, the deferred resumes and the  *)
(* clock of the AudioContext.                                               *)

\* durations of the decoded files, tempos the analysis reports
FileDurations == {64}
DetectedBpms == {60}
\* bar indexes and times asked of the seeks, positions of the scrubber
SeekBars == {0, 2, 18, 66}
SeekTimes == {0 - 1, 5, 70}
ScrubTimes == {7}
\* the clock advances by a moment or by the length of a file
ClockSteps == {1} \cup FileDurations

editorVars == <<arrangementName, totalBars, sections, instruments, rows, sectionBar, download>>

LoadAudioFile ==
    \E duration \in FileDurations :
        /\ ~player.audioContextRef
        /\ player' = Render(player, loadAudioFile(player, duration))
        /\ lastOp' = Op("loadAudioFile", duration)
        /\ UNCHANGED <<editorVars, gesturesLeft, advancesLeft>>

\* analyzeFullBuffer resolves with a tempo
AnalysisResolved ==
    \E a \in player.analyses : \E bpm \in DetectedBpms :
        /\ player' = Render(player, analysisResolved(player, a, bpm))
        /\ lastOp' = Op("analysisResolved", a.file)
        /\ UNCHANGED <<editorVars, gesturesLeft, advancesLeft>>

PlayPause ==
    /\ player' = Render(player, handlePlayPause(player, Closure(player)))
    /\ lastOp' = Op("handlePlayPause", 0)
    /\ Gesture
    /\ UNCHANGED <<editorVars, advancesLeft>>

Stop ==
    /\ player' = Render(player, handleStop(player))
    /\ lastOp' = Op("handleStop", 0)
    /\ Gesture
    /\ UNCHANGED <<editorVars, advancesLeft>>

SeekToBar ==
    \E barIndex \in SeekBars :
        /\ player' = Render(player, seekToBar(player, Closure(player), barIndex))
        /\ lastOp' = Op("seekToBar", barIndex)
        /\ Gesture
        /\ UNCHANGED <<editorVars, advancesLeft>>

SeekToTime ==
    \E time \in SeekTimes :
        /\ player' = Render(player, seekToTime(player, Closure(player), time))
        /\ lastOp' = Op("seekToTime", time)
        /\ Gesture
        /\ UNCHANGED <<editorVars, advancesLeft>>

\* the press on the slider; the step is labelled with 1 if the audio plays
ScrubStart ==
    /\ player.audioBufferRef # None
    /\ ~player.isDragging
    /\ player' = Render(player, handleScrubStart(player))
    /\ lastOp' = Op("handleScrubStart", IF player.isPlaying THEN 1 ELSE 0)
    /\ Gesture
    /\ UNCHANGED <<editorVars, advancesLeft>>

TimeChange ==
    \E newTime \in ScrubTimes :
        /\ player.isDragging
        /\ player' = Render(player, handleTimeChange(player, newTime))
        /\ lastOp' = Op("handleTimeChange", newTime)
        /\ UNCHANGED <<editorVars, gesturesLeft, advancesLeft>>

ScrubEnd ==
    /\ player.isDragging
    /\ player' = Render(player, handleScrubEnd(player, Closure(player)))
    /\ lastOp' = Op("handleScrubEnd", 0)
    /\ UNCHANGED <<editorVars, gesturesLeft, advancesLeft>>

\* the browser runs a requested animation frame
AnimationFrame ==
    \E f \in player.frames :
        /\ player' = Render(player,
                updateWebAudioTime([player EXCEPT !.frames = @ \ {f}], f))
        /\ lastOp' = Op("updateWebAudioTime", 0)
        /\ UNCHANGED <<editorVars, gesturesLeft, advancesLeft>>

\* the oldest setTimeout(() => playAudio(), 10) fires
Timeout ==
    /\ player.timeouts # <<>>
    /\ player' = Render(player,
            playAudio([player EXCEPT !.timeouts = Tail(@)], Head(player.timeouts)))
    /\ lastOp' = Op("playAudio", 0)
    /\ UNCHANGED <<editorVars, gesturesLeft, advancesLeft>>

AdvanceClock ==
    \E step \in ClockSteps :
        /\ player.audioContextRef
        /\ advancesLeft > 0
        /\ advancesLeft' = advancesLeft - 1
        /\ player' = [player EXCEPT !.contextTime = @ + step]
        /\ lastOp' = Op("clock", step)
        /\ UNCHANGED <<editorVars, gesturesLeft>>

NextPlayer ==
    \/ LoadAudioFile
    \/ AnalysisResolved
    \/ PlayPause
    \/ Stop
    \/ SeekToBar
    \/ SeekToTime
    \/ ScrubStart
    \/ TimeChange
    \/ ScrubEnd
    \/ AnimationFrame
    \/ Timeout
    \/ AdvanceClock

SpecPlayer == InitShort /\ [][NextPlayer]_vars

----------------------------------------------------------------------------
(* The seeks: the player with one gesture more, for a seek that arrives     *)
(* while the deferred resume of an earlier seek is pending.                 *)

NextSeeks ==
    \/ LoadAudioFile
    \/ AnalysisResolved
    \/ PlayPause
    \/ Stop
    \/ SeekToBar
    \/ SeekToTime
    \/ ScrubStart
    \/ TimeChange
    \/ ScrubEnd
    \/ AnimationFrame
    \/ Timeout
    \/ AdvanceClock

SpecSeeks == Init /\ [][NextSeeks]_vars

----------------------------------------------------------------------------
(* The loading of audio files: files are dropped on the footer, decoded     *)
(* and analysed, while the transport and the seeks are used.                *)

\* the files dropped: the durations of their audio
AudioFiles == FileDurations \cup {32}

\* Footer: handleDrop -> setAudioFile(newFile)
DropAudioFile ==
    \E file \in AudioFiles :
        /\ player.audioFile # Some(file)
        /\ player' = Render(player, audioFileEffect(player, file))
        /\ lastOp' = Op("audioFileEffect", file)
        /\ Gesture
        /\ UNCHANGED <<editorVars, advancesLeft>>

InitWebAudioResolved ==
    \E file \in player.decoding :
        /\ player' = Render(player, initWebAudioResolved(player, file))
        /\ lastOp' = Op("initWebAudioResolved", file)
        /\ UNCHANGED <<editorVars, gesturesLeft, advancesLeft>>

InitWebAudioRejected ==
    \E file \in player.decoding :
        /\ player' = Render(player, initWebAudioRejected(player, file))
        /\ lastOp' = Op("initWebAudioRejected", file)
        /\ UNCHANGED <<editorVars, gesturesLeft, advancesLeft>>

BackupAnalysis ==
    /\ player.backupTimeout
    /\ player' = Render(player, backupAnalysis(player))
    /\ lastOp' = Op("backupAnalysis", 0)
    /\ UNCHANGED <<editorVars, gesturesLeft, advancesLeft>>

NextLoading ==
    \/ DropAudioFile
    \/ InitWebAudioResolved
    \/ InitWebAudioRejected
    \/ BackupAnalysis
    \/ AnalysisResolved
    \/ PlayPause
    \/ SeekToBar
    \/ SeekToTime
    \/ AnimationFrame
    \/ Timeout

SpecLoading == Init /\ [][NextLoading]_vars

----------------------------------------------------------------------------
(* Pause and resume: the play button and the slider, with one gesture more  *)
(* for a button pressed while the slider is dragged.                        *)

NextPause ==
    \/ LoadAudioFile
    \/ PlayPause
    \/ ScrubStart
    \/ TimeChange
    \/ ScrubEnd
    \/ AdvanceClock
    \/ AnimationFrame

SpecPause == InitLong /\ [][NextPause]_vars

----------------------------------------------------------------------------
(* The time of a bar: seekToBar on files of several lengths, before and     *)
(* after the tempo analysis, while nothing plays.                           *)

\* durations of the files, tempos the analysis detects, bars asked for
BarFiles == {2, 6, 128}
BarBpms == {60, 120}
BarIndexes == {1, 2, 3, 5, 6, 65}

LoadBarFile ==
    \E duration \in BarFiles :
        /\ ~player.audioContextRef
        /\ player' = Render(player, loadAudioFile(player, duration))
        /\ lastOp' = Op("loadAudioFile", duration)
        /\ UNCHANGED <<editorVars, gesturesLeft, advancesLeft>>

BarAnalysisResolved ==
    \E a \in player.analyses : \E bpm \in BarBpms :
        /\ player' = Render(player, analysisResolved(player, a, bpm))
        /\ lastOp' = Op("analysisResolved", a.file)
        /\ UNCHANGED <<editorVars, gesturesLeft, advancesLeft>>

SeekToBarIndex ==
    \E barIndex \in BarIndexes :
        /\ player' = Render(player, seekToBar(player, Closure(player), barIndex))
        /\ lastOp' = Op("seekToBar", barIndex)
        /\ Gesture
        /\ UNCHANGED <<editorVars, advancesLeft>>

NextBars ==
    \/ LoadBarFile
    \/ BarAnalysisResolved
    \/ SeekToBarIndex
    \/ BarCountChange

SpecBars == InitShort /\ [][NextBars]_vars

----------------------------------------------------------------------------
(* The bar shown during playback: short files, whose last beat comes soon.  *)

\* durations of the files; the clock advances by a beat or by a bar
BeatFiles == {5, 8}
BeatSteps == {1, BeatsPerBar}

LoadBeatFile ==
    \E duration \in BeatFiles :
        /\ ~player.audioContextRef
        /\ player' = Render(player, loadAudioFile(player, duration))
        /\ lastOp' = Op("loadAudioFile", duration)
        /\ UNCHANGED <<editorVars, gesturesLeft, advancesLeft>>

AdvanceBeats ==
    \E step \in BeatSteps :
        /\ player.audioContextRef
        /\ advancesLeft > 0
        /\ advancesLeft' = advancesLeft - 1
        /\ player' = [player EXCEPT !.contextTime = @ + step]
        /\ lastOp' = Op("clock", step)
        /\ UNCHANGED <<editorVars, gesturesLeft>>

NextBarShown ==
    \/ LoadBeatFile
    \/ AnalysisResolved
    \/ PlayPause
    \/ AdvanceBeats
    \/ AnimationFrame

SpecBarShown == Init /\ [][NextBarShown]_vars

----------------------------------------------------------------------------
(* ArrangementGrid: the shift-click that seeks the audio. The grid's        *)
(* onSeekToBar is the function MusicPlayer registers with its parent.       *)

\* the width of a bar column when more than 64 bars are shown
FixedBarWidth == 20

\* handleGridClick(e): the argument onSeekToBar is called with, if it is
\* called; the grid's left edge is at clientX 0
handleGridClick(shiftKey, clientX) ==
    IF ~shiftKey
    THEN None
    ELSE LET relativeX == clientX
             gridWidth == RowWidth
             barIndex == IF totalBars > InitialTotalBars
                         THEN relativeX \div FixedBarWidth
                         ELSE (relativeX * totalBars) \div gridWidth
         IN  IF barIndex >= 0 /\ barIndex < totalBars
             THEN Some(barIndex)
             ELSE None

\* clientX of the clicks: over the first, the second and the last bar column,
\* and on the right edge of the grid
GridXs == {0, PxPerBar, 2 * PxPerBar - 1, RowWidth - 1, RowWidth}

GridClick ==
    \E shiftKey \in BOOLEAN : \E clientX \in GridXs :
        LET called == handleGridClick(shiftKey, clientX)
        IN  /\ player' = IF called = None
                         THEN player
                         ELSE Render(player, seekToBar(player, Closure(player), called[1]))
            /\ lastOp' = Op(IF shiftKey THEN "handleGridClick" ELSE "click", clientX)
            /\ Gesture
            /\ UNCHANGED <<editorVars, advancesLeft>>

NextGrid ==
    \/ LoadAudioFile
    \/ AnalysisResolved
    \/ GridClick
    \/ PlayPause
    \/ AdvanceClock
    \/ AnimationFrame
    \/ Timeout

SpecGrid == Init /\ [][NextGrid]_vars

----------------------------------------------------------------------------
(* Properties of the arrangement *)

\* the bars that two inclusive ranges share
SharedBars(a, b) == {n \in a.startBar..a.endBar : n >= b.startBar /\ n <= b.endBar}

AllActivities == UNION {Range(i.activities) : i \in Range(instruments)}
Content(secs, insts) == [sections |-> secs, instruments |-> insts]

\* the handlers that move or resize a dragged activity
MoveHandlers == {"handleMouseMove", "handleGlobalMouseMove"}
\* the handlers that call addSection, updateSection, addActivity or an
\* updateActivity of the bar positions
GrowthHandlers ==
    MoveHandlers \cup {"handleRowClick", "handleCreationMouseUp", "handleTimelineClick",
                       "handleSectionMouseMove", "handleSectionMouseUp"}
\* the handlers that add, update or delete a section or an activity
IntervalHandlers ==
    GrowthHandlers \cup {"handleDeleteActivity", "handleDeleteSection"}

\* C1: for every instrument, no two distinct activities a, b satisfy
\* a.startBar <= b.endBar and b.startBar <= a.endBar, in every state reached
\* through the interactions of an instrument track.
C1_NoOverlap ==
    \A i \in Range(instruments) : \A j, k \in DOMAIN i.activities :
        j # k => ~(/\ i.activities[j].startBar <= i.activities[k].endBar
                   /\ i.activities[k].startBar <= i.activities[j].endBar)

\* C6: a handler that adds or updates a section or an activity leaves
\* totalBars equal to max(previous totalBars, 64, E + 4), E the largest endBar
\* of the sections and activities after the mutation.
C6_CanvasGrowth ==
    [][(/\ lastOp'.op \in GrowthHandlers
        /\ <<sections, instruments>>' # <<sections, instruments>>)
       => totalBars' = Max(Max(totalBars, 64),
                           maxUsedBar(Content(sections', instruments')) + 4)]_vars

\* C7: no handler that adds, updates or deletes a section or an activity
\* decreases totalBars.
C7_MonotonicCanvas ==
    [][lastOp'.op \in IntervalHandlers => totalBars' >= totalBars]_vars

\* C7, its case: an activity has just been deleted from a canvas that is
\* larger than what the remaining intervals require
C7_Witness ==
    /\ lastOp.op = "handleDeleteActivity"
    /\ totalBars > InitialTotalBars
    /\ totalBars > maxUsedBar(Content(sections, instruments)) + BarMargin

\* C8: during the drag of an activity's body, a pointer move whose candidate
\* range shares a bar with another activity of the instrument changes nothing
\* in the arrangement and leaves the drag active; a pointer move whose
\* candidate shares no bar with another activity puts the activity there.
C8_CollisionRejection ==
    [][\A r \in DOMAIN rows :
        (/\ lastOp'.op \in MoveHandlers
         /\ rows[r].isDragging
         /\ rows[r].dragInfo # None
         /\ rows[r].dragInfo[1].edge = "move"
         /\ HasActivity(r, rows[r].dragInfo[1].activityId))
        => LET info == rows[r].dragInfo[1]
               c == moveCandidate(info, getBarPositionFromMousePos(lastOp'.x))
               others == {a \in Range(Activities(r)) : a.id # info.activityId}
           IN  IF \E a \in others : SharedBars(c, a) # {}
               THEN /\ <<totalBars, sections, instruments>>'
                            = <<totalBars, sections, instruments>>
                    /\ rows'[r].isDragging
                    /\ rows'[r].dragInfo = rows[r].dragInfo
               ELSE \E i \in Range(instruments') : \E a \in Range(i.activities) :
                        /\ i.id = r
                        /\ a.id = info.activityId
                        /\ a.startBar = c.startBar
                        /\ a.endBar = c.endBar]_vars

\* C8, its case: the last pointer move of a body drag asked for a range that
\* shares a bar with another activity
C8_Witness ==
    \E r \in DOMAIN rows :
        /\ lastOp.op \in MoveHandlers
        /\ rows[r].isDragging
        /\ rows[r].dragInfo # None
        /\ rows[r].dragInfo[1].edge = "move"
        /\ HasActivity(r, rows[r].dragInfo[1].activityId)
        /\ LET info == rows[r].dragInfo[1]
               c == moveCandidate(info, getBarPositionFromMousePos(lastOp.x))
           IN  \E a \in Range(Activities(r)) :
                    a.id # info.activityId /\ SharedBars(c, a) # {}

\* C9: the sections list is in ascending startBar order in every state.
C9_SectionsSorted ==
    \A k \in 1..(Len(sections) - 1) : sections[k].startBar <= sections[k + 1].startBar

\* C10: every section and every activity satisfies 1 <= startBar <= endBar in
\* every state reached through pointer interactions.
C10_WellFormed ==
    /\ \A s \in Range(sections) : 1 <= s.startBar /\ s.startBar <= s.endBar
    /\ \A a \in AllActivities : 1 <= a.startBar /\ a.startBar <= a.endBar

\* C10, its case: the start edge of an activity longer than one bar has been
\* dragged onto the activity's end
C10_Witness ==
    \E r \in DOMAIN rows :
        /\ lastOp.op \in MoveHandlers
        /\ rows[r].dragInfo # None
        /\ rows[r].dragInfo[1].edge = "start"
        /\ rows[r].dragInfo[1].initialStart < rows[r].dragInfo[1].initialEnd
        /\ HasActivity(r, rows[r].dragInfo[1].activityId)
        /\ LET a == ActivityById(r, rows[r].dragInfo[1].activityId)
           IN  a.startBar = a.endBar

\* the text is not valid JSON, or the name it gives is not a string, its
\* totalBars not a number, its sections or its instruments not an array
NotAnArrangement(text) ==
    \/ text.syntax = "error"
    \/ Member(text.value, "name").t # "string"
    \/ Member(text.value, "totalBars").t # "number"
    \/ Member(text.value, "sections").t # "array"
    \/ Member(text.value, "instruments").t # "array"

\* C11: the import of a text that is not valid JSON, or whose name is not a
\* string, whose totalBars is not a number, whose sections or instruments is
\* not an array, leaves name, totalBars, sections and instruments as they were.
C11_RejectedImport ==
    [][(/\ lastOp'.op = "importArrangement"
        /\ lastOp'.x \in DOMAIN InvalidTexts
        /\ NotAnArrangement(InvalidTexts[lastOp'.x]))
       => /\ arrangementName' = arrangementName
          /\ totalBars' = totalBars
          /\ sections' = sections
          /\ instruments' = instruments]_vars

\* C11, its case: a text has just been rejected by an arrangement that has a
\* name and a bar count of its own, and an activity
C11_Witness ==
    /\ lastOp.op = "importArrangement"
    /\ lastOp.x \in DOMAIN InvalidTexts
    /\ NotAnArrangement(InvalidTexts[lastOp.x])
    /\ arrangementName # InitialArrangement.name
    /\ totalBars # InitialArrangement.totalBars
    /\ AllActivities # {}

----------------------------------------------------------------------------
(* Properties of the player *)

SeekHandlers == {"seekToBar", "seekToTime"}

\* the controller is Stopped: not playing, paused offset 0, no audio source,
\* no animation frame pending
Stopped(p) ==
    /\ ~p.isPlaying
    /\ p.pausedTimeRef = 0
    /\ p.sourceNodeRef = None
    /\ p.frames = {}
    /\ p.rafIdRef = None

\* C2: when the deferred playAudio() of a seek runs right after the seek, the
\* audio source starts from the time the seek resolved: clampTime(t, duration)
\* for seekToTime(t), the position of bar b for seekToBar(b) inside the grid.
C2_SeekWhilePlaying ==
    [][(/\ lastOp.op \in SeekHandlers
        /\ lastOp'.op = "playAudio"
        /\ player.audioBufferRef # None
        /\ player'.sourceNodeRef # None)
       => LET offset == player'.sourceNodeRef[1].offset
          IN  /\ lastOp.op = "seekToTime"
                    => offset = Max(0, Min(lastOp.x, player.audioBufferRef[1]))
              /\ (/\ lastOp.op = "seekToBar"
                  /\ player.beatInfo # None
                  /\ lastOp.x \in DOMAIN player.beatInfo[1].barPositions)
                    => offset = player.beatInfo[1].barPositions[lastOp.x]]_vars

\* C3: seekToBar(b) and seekToTime(t) leave pausedTimeRef unchanged or set it
\* to a value in [0, duration].
C3_SeekClamped ==
    [][lastOp'.op \in SeekHandlers
       => \/ player'.pausedTimeRef = player.pausedTimeRef
          \/ /\ player'.audioBufferRef # None
             /\ 0 <= player'.pausedTimeRef
             /\ player'.pausedTimeRef <= player'.audioBufferRef[1]]_vars

\* C4: handleStop leaves the controller Stopped whatever the state it is
\* called in, and a play that follows it starts the audio from offset 0.
C4_StopResets ==
    [][/\ lastOp'.op = "handleStop" => Stopped(player')
       /\ (/\ lastOp.op = "handleStop"
           /\ lastOp'.op = "handlePlayPause"
           /\ player'.sourceNodeRef # None)
            => player'.sourceNodeRef[1].offset = 0]_vars

\* C4, its case: the audio was started after the clock had advanced, it has
\* played for a while and has just been stopped
C4_Witness ==
    /\ lastOp.op = "handleStop"
    /\ player.audioBufferRef # None
    /\ player.startTimeRef > 0
    /\ player.contextTime > player.startTimeRef

\* C5: the animation frame that finds the position at or past the duration
\* ends the playback and leaves the controller Stopped, paused offset 0.
C5_EndOfPlayback ==
    [][(/\ lastOp'.op = "updateWebAudioTime"
        /\ player.isPlaying
        /\ ~player'.isPlaying)
       => Stopped(player')]_vars

\* C13: while no audio buffer is decoded and nothing plays, a press of the
\* play button, seekToBar(b) and seekToTime(t) leave the controller not
\* playing, the paused offset and the displayed time as they were, and start
\* no audio source.
C13_NoAudioNoEffect ==
    [][(/\ lastOp'.op \in {"handlePlayPause", "seekToBar", "seekToTime"}
        /\ player.audioBufferRef = None
        /\ ~player.isPlaying)
       => /\ ~player'.isPlaying
          /\ player'.pausedTimeRef = player.pausedTimeRef
          /\ player'.currentTime = player.currentTime
          /\ player'.sourceNodeRef = player.sourceNodeRef
          /\ player'.activeSources = player.activeSources]_vars

\* C14: in every state at most one audio source is started and not stopped.
C14_SingleSource ==
    player.activeSources <= 1

\* C14, its case: the scrubber has been released while the audio played, and
\* the audio has been started again from the released position
C14_Witness ==
    /\ lastOp.op = "handleScrubEnd"
    /\ player.isPlaying
    /\ player.sourceNodeRef # None
    /\ player.sourceNodeRef[1].offset \in ScrubTimes
    /\ player.activeSources = 1

\* the offset a seek asks for: the paused offset it stores when nothing plays
\* and no resume is pending
SeekTarget(p, op, x) ==
    LET c == [Closure(p) EXCEPT !.isPlaying = FALSE]
        q == [p EXCEPT !.timeouts = <<>>]
    IN  IF op = "seekToBar"
        THEN seekToBar(q, c, x).pausedTimeRef
        ELSE seekToTime(q, c, x).pausedTimeRef

C16_GridDiscarded ==
    [][/\ lastOp'.op = "audioFileEffect"
          => /\ player'.bpm = None
             /\ player'.beatInfo = None
       /\ (/\ lastOp'.op = "analysisResolved"
           /\ player.audioFile # Some(lastOp'.x))
          => /\ player'.bpm = player.bpm
             /\ player'.beatInfo = player.beatInfo]_vars

\* C17: of one audio file at most one tempo analysis is running: the direct
\* analysis and the analysis of the backup timer never both run.
C17_OneAnalysisPerFile ==
    \A a, b \in player.analyses : a.file = b.file => a = b

\* the bar column that lies under clientX
BarUnder(clientX) == clientX \div PxPerBar + 1

\* C18: a shift-click of the grid over bar b, 1 <= b <= totalBars, seeks the
\* audio as seekToBar(b) does.
C18_ShiftClickSeeksBar ==
    [][(/\ lastOp'.op = "handleGridClick"
        /\ BarUnder(lastOp'.x) \in 1..totalBars)
       => player' = Render(player,
               seekToBar(player, Closure(player), BarUnder(lastOp'.x)))]_vars

\* C20: while the slider is dragged an animation frame leaves the displayed
\* time as it is; the release stores the slider's value as the paused offset;
\* and a release that directly follows the press starts the audio from that
\* value if the audio played when the slider was pressed, and leaves the
\* controller not playing otherwise.
C20_Scrubbing ==
    [][/\ (/\ lastOp'.op = "updateWebAudioTime"
           /\ player.isDragging)
          => player'.currentTime = player.currentTime
       /\ lastOp'.op = "handleScrubEnd"
          => player'.pausedTimeRef = player.currentTime
       /\ (/\ lastOp'.op = "handleScrubEnd"
           /\ lastOp.op = "handleScrubStart")
          => IF lastOp.x = 1
             THEN /\ player'.isPlaying
                  /\ player'.sourceNodeRef = Some([offset |-> player.currentTime,
                                                   startedAt |-> player.contextTime])
             ELSE /\ ~player'.isPlaying
                  /\ player'.sourceNodeRef = None]_vars

\* the controller is Playing: the state says so and a source is started
Playing(p) == p.isPlaying /\ p.sourceNodeRef # None

\* C19, as claimed: a press of the button in state Playing adds the time
\* played since the start to the paused offset, stops the source and leaves
\* the controller paused; the press of the button that follows it starts the
\* audio from that paused offset.
C19_PauseResumeAlways ==
    [][/\ (/\ lastOp'.op = "handlePlayPause"
           /\ Playing(player))
          => /\ player'.pausedTimeRef
                    = player.pausedTimeRef + (player.contextTime - player.startTimeRef)
             /\ player'.sourceNodeRef = None
             /\ player'.activeSources = 0
             /\ ~player'.isPlaying
       /\ (/\ lastOp.op = "handlePlayPause"
           /\ lastOp'.op = "handlePlayPause"
           /\ ~player.isPlaying
           /\ player.audioBufferRef # None
           /\ player.pausedTimeRef < player.audioBufferRef[1])
          => /\ player'.sourceNodeRef
                    = Some([offset |-> player.pausedTimeRef,
                            startedAt |-> player.contextTime])
             /\ player'.pausedTimeRef = player.pausedTimeRef]_vars

\* C19, amended: a press of the button in state Playing adds the time played
\* since the start to the paused offset, stops the source and leaves the
\* controller paused; a press of the button while nothing plays and the
\* slider is not dragged starts the audio from the paused offset (an offset
\* before the end of the audio).
C19_PauseResume ==
    [][/\ (/\ lastOp'.op = "handlePlayPause"
           /\ Playing(player))
          => /\ player'.pausedTimeRef
                    = player.pausedTimeRef + (player.contextTime - player.startTimeRef)
             /\ player'.sourceNodeRef = None
             /\ player'.activeSources = 0
             /\ ~player'.isPlaying
       /\ (/\ lastOp'.op = "handlePlayPause"
           /\ ~player.isPlaying
           /\ ~player.isDragging
           /\ player.audioBufferRef # None
           /\ player.pausedTimeRef < player.audioBufferRef[1])
          => /\ player'.sourceNodeRef
                    = Some([offset |-> player.pausedTimeRef,
                            startedAt |-> player.contextTime])
             /\ player'.pausedTimeRef = player.pausedTimeRef]_vars

\* C19, its case: the audio has been paused after some time of playing and
\* is started again, from the offset of the pause
C19_Witness ==
    /\ lastOp.op = "handlePlayPause"
    /\ Playing(player)
    /\ ~player.isDragging
    /\ player.pausedTimeRef > 0
    /\ player.sourceNodeRef[1].offset = player.pausedTimeRef
    /\ player.sourceNodeRef[1].startedAt >= player.pausedTimeRef

\* the bar positions of the beat grid of p, none if p holds no grid
BarPositions(p) == IF p.beatInfo = None THEN <<>> ELSE p.beatInfo[1].barPositions

\* C21: with a beat grid of n >= 1 bar positions, a seek to bar b, 1 <= b <= n,
\* stores the b-th bar position (barPositions[b - 1] of the 0-based array) and
\* displays it.
C21_BarInsideGrid ==
    [][(/\ lastOp'.op = "seekToBar"
        /\ lastOp'.x \in 1..Len(BarPositions(player)))
       => /\ player'.pausedTimeRef = BarPositions(player)[lastOp'.x]
          /\ player'.currentTime = BarPositions(player)[lastOp'.x]]_vars

\* C21, its case: a seek to the last bar of a grid of several bars, which
\* does not start at 0, has been made
C21_Witness ==
    /\ lastOp.op = "seekToBar"
    /\ lastOp.x = Len(BarPositions(player))
    /\ lastOp.x > 1
    /\ player.pausedTimeRef = BarPositions(player)[lastOp.x]
    /\ player.pausedTimeRef > 0

\* C22: with a beat grid of n >= 2 bar positions, a seek to bar b > n stores
\* barPositions[last] + (i - last) * (barPositions[last] - barPositions[last-1]),
\* i = b - 1 and last = n - 1 being indexes of the 0-based array.
C22_Extrapolation ==
    [][(/\ lastOp'.op = "seekToBar"
        /\ Len(BarPositions(player)) >= 2
        /\ lastOp'.x > Len(BarPositions(player)))
       => LET bars == BarPositions(player)
              n == Len(bars)
          IN  player'.pausedTimeRef
                  = bars[n] + ((lastOp'.x - 1) - (n - 1)) * (bars[n] - bars[n - 1])]_vars

\* C22, its case: a seek to a bar at least two bars past the grid has been made
C22_Witness ==
    /\ lastOp.op = "seekToBar"
    /\ Len(BarPositions(player)) >= 2
    /\ lastOp.x > Len(BarPositions(player)) + 1
    /\ player.pausedTimeRef > BarPositions(player)[Len(BarPositions(player))]
    /\ player.currentTime = player.pausedTimeRef

\* C23, as claimed: with the bar positions 0, 2, 4 a seek to bar 5 stores the
\* time 6.
C23_ExtrapolationExample ==
    [][(/\ lastOp'.op = "seekToBar"
        /\ BarPositions(player) = <<0, 2, 4>>
        /\ lastOp'.x = 5)
       => player'.pausedTimeRef = 6]_vars

\* C23, amended: with the bar positions 0, 2, 4 a seek to bar 5 stores the
\* time 8, two steps of 2 s past the last bar position.
C23_ExtrapolationTwoSteps ==
    [][(/\ lastOp'.op = "seekToBar"
        /\ BarPositions(player) = <<0, 2, 4>>
        /\ lastOp'.x = 5)
       => player'.pausedTimeRef = 8]_vars

\* C23, its case: the grid 0, 2, 4 of a file of 6 s at 120 beats a minute, and
\* a seek to bar 5 made
C23_Witness ==
    /\ lastOp = Op("seekToBar", 5)
    /\ BarPositions(player) = <<0, 2, 4>>
    /\ player.audioBufferRef = Some(6)
    /\ player.currentTime = 8

\* C24: without a beat grid and with decoded audio of duration D > 0, a seek
\* to bar b stores (b - 1) * D / 64 (in whole seconds), whatever the bars of
\* the arrangement; with D = 128 that is 0 for bar 1 and 128 for bar 65.
C24_FallbackEstimation ==
    [][(/\ lastOp'.op = "seekToBar"
        /\ player.beatInfo = None
        /\ player.audioBufferRef # None)
       => /\ player'.pausedTimeRef
                 = ((lastOp'.x - 1) * player.audioBufferRef[1]) \div 64
          /\ (player.audioBufferRef[1] = 128 /\ lastOp'.x = 1)
                 => player'.pausedTimeRef = 0
          /\ (player.audioBufferRef[1] = 128 /\ lastOp'.x = 65)
                 => player'.pausedTimeRef = 128]_vars

\* C24, its case: the arrangement shows 16 bars, the file of 128 s has no beat
\* grid, and a seek to bar 65 has stored 128
C24_Witness ==
    /\ lastOp = Op("seekToBar", 65)
    /\ totalBars = 16
    /\ player.beatInfo = None
    /\ player.audioBufferRef = Some(128)
    /\ player.pausedTimeRef = 128

\* barForTime: the bar of the last beat at or before t, none before the first
barForTime(t, grid) ==
    LET sooner == {k \in DOMAIN grid.beatPositions : grid.beatPositions[k] <= t}
    IN  IF sooner = {}
        THEN None
        ELSE Some((Cardinality(sooner) - 1) \div grid.beatsPerBar)

\* C25: an animation frame of the playback with a beat grid, which displays
\* the time t, shows the bar floor(k / beatsPerBar) of the greatest beat index
\* k with beatPositions[k] <= t.
C25_BarForTime ==
    [][(/\ lastOp'.op = "updateWebAudioTime"
        /\ player'.isPlaying
        /\ ~player.isDragging
        /\ player.beatInfo # None)
       => player'.currentBar = barForTime(player'.currentTime, player.beatInfo[1])]_vars

-----------------------------------------------------------------------------
(* The end of a pointer interaction.  A row's onMouseUp and the section     *)
(* bar's onMouseUp run for a release over that element; the document's      *)
(* 'mouseup' listener of a row exists only while isDragging && dragInfo     *)
(* (InstrumentRow.tsx 209-274); SectionBar.tsx adds no document listener.   *)

\* a pointer released outside the tracks: the document's listeners alone run
handleDocumentMouseUp ==
    /\ rows' = [r \in DOMAIN rows |->
            IF rows[r].isDragging /\ rows[r].dragInfo # None
            THEN [rows[r] EXCEPT !.isDragging = FALSE, !.dragInfo = None]
            ELSE rows[r]]
    /\ UNCHANGED <<arrVars, sectionBar>>

\* the release that follows a press, right of the tracks
MouseUpOutside ==
    /\ ~PointerFree
    /\ handleDocumentMouseUp
    /\ NoGesture
    /\ lastOp' = Op("mouseup", RowWidth)
    /\ UNCHANGED <<playerVars, download>>

NextPointer ==
    \/ AddInstrument
    \/ ActivityMouseDown
    \/ MouseUp
    \/ GlobalMouseUp
    \/ RowMouseDown
    \/ CreationMouseUp
    \/ TimelineMouseDown
    \/ SectionMouseDown
    \/ SectionMouseUp
    \/ MouseUpOutside

SpecPointer == Init /\ [][NextPointer]_vars

RowIdle(row) == ~row.isDragging /\ ~row.isCreatingActivity
SectionBarIdle(bar) == ~bar.isDragging /\ ~bar.isCreatingSection

\* C26: a pointer-up returns the track it ends an interaction of to Idle,
\* wherever the pointer is released: after a release over a row its row is
\* idle, after a release over the section bar the section bar is idle, and
\* after a release outside the tracks every track is idle.
C26_PointerUpEndsInteraction ==
    [][/\ (lastOp'.op \in {"handleMouseUp", "handleGlobalMouseUp",
                           "handleCreationMouseUp", "mouseup"}
            => \A r \in DOMAIN rows' : RowIdle(rows'[r]))
       /\ (lastOp'.op \in {"handleSectionMouseUp", "mouseup"}
            => SectionBarIdle(sectionBar'))]_vars

\* a release over the track of the interaction ends it
C26_ReleaseOverTrack ==
    [][/\ (lastOp'.op \in {"handleMouseUp", "handleGlobalMouseUp",
                           "handleCreationMouseUp"}
            => \A r \in DOMAIN rows' : RowIdle(rows'[r]))
       /\ (lastOp'.op = "handleSectionMouseUp"
            => SectionBarIdle(sectionBar'))]_vars

\* a release outside the tracks ends the drag of an activity
C26_ReleaseOutsideEndsDrag ==
    [][(lastOp'.op = "mouseup" /\ \E r \in DOMAIN rows : rows[r].isDragging)
       => PointerFree']_vars

-----------------------------------------------------------------------------
(* Clicks on the tracks of two instruments *)

\* instrument rows of the grid
MaxRows == 2

AddRow ==
    /\ Len(instruments) < MaxRows
    /\ addInstrument
    /\ NoGesture
    /\ lastOp' = Op("addInstrument", Len(instruments))
    /\ UNCHANGED <<playerVars, download>>

\* clientX of the clicks on a row: also over the first bar whose default span
\* ends on the last bar of the initial canvas
RowXs == InsideXs \cup ColumnXs(InitialTotalBars - DefaultSpanExtra)

\* the handlers of a click on the row of instrument r, at clientX
CreationMouseUpOn ==
    \E r \in DOMAIN rows : \E x \in RowXs :
        /\ handleCreationMouseUp(r, x)
        /\ NoGesture
        /\ lastOp' = Op("handleCreationMouseUp", <<r, x>>)
        /\ UNCHANGED <<playerVars, download>>

RowClickOn ==
    \E r \in DOMAIN rows : \E x \in RowXs :
        /\ ActivityCount(r) < MaxActivities
        /\ handleRowClick(r, x)
        /\ Gesture
        /\ lastOp' = Op("handleRowClick", <<r, x>>)
        /\ UNCHANGED <<playerVars, download>>

NextRows ==
    \/ AddRow
    \/ RowMouseDown
    \/ CreationMouseUpOn
    \/ RowClickOn
    \/ TimelineMouseDown
    \/ SectionMouseUp

SpecRows == InitShort /\ [][NextRows]_vars

\* the spans the click on bar b may create: that of a section b lies in, the
\* default span when it lies in none
ClickedSpans(b) ==
    LET around == {s \in Range(sections) : s.startBar <= b /\ b <= s.endBar}
    IN  IF around # {}
        THEN {<<s.startBar, s.endBar>> : s \in around}
        ELSE {<<b, Min(totalBars, b + 3)>>}

\* the step adds one activity over `span` to instrument r, and nothing else
AddsActivity(r, span) ==
    /\ Len(instruments') = Len(instruments)
    /\ \A k \in DOMAIN instruments :
        LET before == instruments[k].activities
            after == instruments'[k].activities
        IN  IF instruments[k].id = r
            THEN /\ Len(after) = Len(before) + 1
                 /\ SubSeq(after, 1, Len(before)) = before
                 /\ <<after[Len(after)].startBar, after[Len(after)].endBar>> = span
            ELSE after = before

-----------------------------------------------------------------------------
(* The names of created sections *)

\* sections of the arrangement while their names are followed
MaxNamedSections == 3

\* clientX of the presses on the timeline: over the first bar, over the last
\* one, and over the first bar whose default span ends on the last one
TimelineXs == InsideXs \cup ColumnXs(InitialTotalBars - DefaultSpanExtra)

\* the names typed into a section's name field
TypedNames == {"C", "Z"}

NamedTimelineClick ==
    \E x \in TimelineXs :
        /\ Len(sections) < MaxNamedSections
        /\ handleTimelineClick(x)
        /\ Gesture
        /\ lastOp' = Op("handleTimelineClick", x)
        /\ UNCHANGED <<playerVars, download>>

NamedTimelineMouseDown ==
    \E x \in TimelineXs :
        /\ Len(sections) < MaxNamedSections
        /\ handleTimelineMouseDown(x)
        /\ Gesture
        /\ lastOp' = Op("handleTimelineMouseDown", x)
        /\ UNCHANGED <<playerVars, download>>

SectionNameBlur ==
    \E s \in Range(sections) : \E typed \in TypedNames :
        /\ PointerFree
        /\ s.name # typed
        /\ handleSectionNameBlur(s.id, typed)
        /\ NoGesture
        /\ lastOp' = Op("handleSectionNameBlur", 0)
        /\ UNCHANGED <<playerVars, download>>

NextNaming ==
    \/ NamedTimelineClick
    \/ NamedTimelineMouseDown
    \/ SectionMouseUp
    \/ SectionNameBlur

SpecNaming == Init /\ [][NextNaming]_vars

\* the single-uppercase-letter names of the sections, as alphabet positions
LetterNames == {LetterIndex(s.name) : s \in {t \in Range(sections) : t.name \in Range(Letters)}}

Contiguous(indexes) ==
    \A k \in 1..Len(Letters) :
        (\E i \in indexes : i <= k) /\ (\E j \in indexes : k <= j) => k \in indexes

\* the name the claim gives to the next created section
ClaimedSectionName ==
    IF sections = <<>> THEN "Intro"
    ELSE IF LetterNames # {} /\ Contiguous(LetterNames)
         THEN LET last == CHOOSE k \in LetterNames : \A j \in LetterNames : j <= k
              IN  Letters[(last % Len(Letters)) + 1]
         ELSE "A"

\* the section a step has created
Created(s) == s \in Range(sections') /\ \A t \in Range(sections) : t.id # s.id

\* C28: the first section created is named "Intro"; a later one gets the
\* letter after the alphabetically-last single-uppercase-letter name (Z wraps
\* to A) if those names form a contiguous set, and "A" otherwise.
C28_SectionAutoNaming ==
    [][lastOp'.op \in {"handleTimelineClick", "handleSectionMouseUp"}
       => \A s \in Range(sections') : Created(s) => s.name = ClaimedSectionName]_vars

\* ... which holds of every creation among contiguous letter names
C28_NamingAmongContiguous ==
    [][(/\ lastOp'.op \in {"handleTimelineClick", "handleSectionMouseUp"}
        /\ Contiguous(LetterNames))
       => \A s \in Range(sections') : Created(s) => s.name = ClaimedSectionName]_vars

-----------------------------------------------------------------------------
(* The names and the colours of added instruments *)

\* instruments of the arrangement while names and colours are followed: one
\* more than the palette holds
MaxInstruments == 13

\* the names typed into an instrument's name field
TypedInstrumentNames == {<<"B", "a", "s", "s">>}

AddBandInstrument ==
    /\ Len(instruments) < MaxInstruments
    /\ addInstrument
    /\ NoGesture
    /\ lastOp' = Op("addInstrument", Len(instruments))
    /\ UNCHANGED <<playerVars, download>>

\* handleNameBlur of a row with a non-blank name
InstrumentNameBlur ==
    \E i \in Range(instruments) : \E typed \in TypedInstrumentNames :
        /\ i.name # typed
        /\ updateInstrumentName(i.id, typed)
        /\ Gesture
        /\ lastOp' = Op("handleNameBlur", 0)
        /\ UNCHANGED <<playerVars, download>>

NextBand ==
    \/ AddBandInstrument
    \/ InstrumentNameBlur
    \/ ImportArrangement

\* the state after construction, with room for one name edit fewer
InitBrief ==
    /\ arrangementName = InitialArrangement.name
    /\ totalBars = InitialArrangement.totalBars
    /\ sections = InitialArrangement.sections
    /\ instruments = InitialArrangement.instruments
    /\ rows = <<>>
    /\ sectionBar = InitialSectionBar
    /\ player = InitialPlayer
    /\ download = None
    /\ gesturesLeft = MaxGestures - 2
    /\ advancesLeft = MaxAdvances
    /\ lastOp = Op("init", 0)

SpecBand == InitBrief /\ [][NextBand]_vars

\* the presets no instrument is named by, whatever the case of its letters
UnusedPresets ==
    {k \in DOMAIN DEFAULT_INSTRUMENTS :
        \A i \in Range(instruments) :
            toLowerCase(i.name) # toLowerCase(DEFAULT_INSTRUMENTS[k])}

\* the instrument a step has appended
Appended == instruments'[Len(instruments')]

\* C29: addInstrument appends an instrument named by the first of bass,
\* guitar, vox, keys, pads, perc, drums that no instrument has, compared
\* case-insensitively, and by "Instrument N", N = instrument count + 1, when
\* all seven are in use.
C29_InstrumentNaming ==
    [][lastOp'.op = "addInstrument"
       => /\ Len(instruments') = Len(instruments) + 1
          /\ SubSeq(instruments', 1, Len(instruments)) = instruments
          /\ Appended.name =
                IF UnusedPresets # {}
                THEN DEFAULT_INSTRUMENTS[CHOOSE k \in UnusedPresets :
                                            \A j \in UnusedPresets : k <= j]
                ELSE InstrumentN(Len(instruments) + 1)]_vars

\* the eighth instrument is named "Instrument 8" beside one renamed "Bass"
C29_Witness ==
    /\ lastOp.op = "addInstrument"
    /\ Len(instruments) = 8
    /\ instruments[8].name = <<"I", "n", "s", "t", "r", "u", "m", "e", "n", "t", " ", "8">>
    /\ \E i \in Range(instruments) : i.name = <<"B", "a", "s", "s">>

\* the palette colours no instrument has
UnusedPalette ==
    {k \in DOMAIN COLOR_PALETTE :
        \A i \in Range(instruments) : i.color # COLOR_PALETTE[k]}

\* an arrangement that only addInstrument and name edits have built
BuiltByAdding == arrangementName' = InitialArrangement.name

\* C30: addInstrument gives the new instrument the first palette colour that
\* no instrument uses; the first two instruments of an empty arrangement get
\* #4285F4 and #EA4335; the instruments of an arrangement built by at most
\* 12 addInstrument calls have pairwise distinct colours.
C30_InstrumentColour ==
    [][/\ (lastOp'.op = "addInstrument" /\ UnusedPalette # {}
            => Appended.color =
                COLOR_PALETTE[CHOOSE k \in UnusedPalette :
                                \A j \in UnusedPalette : k <= j])
       /\ (BuiltByAdding /\ Len(instruments') <= 12
            => /\ \A j, k \in DOMAIN instruments' :
                    j # k => instruments'[j].color # instruments'[k].color
               /\ Len(instruments') >= 1 => instruments'[1].color = "#4285F4"
               /\ Len(instruments') >= 2 => instruments'[2].color = "#EA4335")]_vars

\* twelve instruments added to the empty arrangement
C30_Witness ==
    /\ lastOp.op = "addInstrument"
    /\ arrangementName = InitialArrangement.name
    /\ Len(instruments) = 12
    /\ instruments[12].color = "#009688"

-----------------------------------------------------------------------------
(* The wheel over the activities of a row *)

\* a wheel event over activity a: direction is -1 (up, deltaY < 0) or 1 (down)
ActivityWheelOn ==
    \E r \in DOMAIN rows : \E a \in Range(Activities(r)) :
        \E direction \in {0 - 1, 1} : \E throttled \in BOOLEAN :
            /\ PointerFree
            /\ handleActivityWheel(r, a.id, direction, throttled)
            /\ NoGesture
            /\ lastOp' = Op("handleActivityWheel", <<a.id, direction, throttled>>)
            /\ UNCHANGED <<playerVars, download>>

NextWheel ==
    \/ AddInstrument
    \/ RowClick
    \/ TimelineClick
    \/ ActivityWheelOn

SpecWheel == InitShort /\ [][NextWheel]_vars

\* the instruments with the variation of activity `id` set to v
WithVariation(id, v) ==
    [k \in DOMAIN instruments |->
        [instruments[k] EXCEPT !.activities = [n \in DOMAIN @ |->
            IF @[n].id = id THEN [@[n] EXCEPT !.variation = Some(v)] ELSE @[n]]]]

\* C31: a wheel event that is not throttled, over an activity with variation
\* v (0 when it has none), sets the variation to (v + 1) mod 5 for wheel-down
\* and (v - 1) mod 5 for wheel-up, a value of 0..4, and changes nothing else:
\* the bars of the activity, the other activities, sections and totalBars.
C31_WheelGesture ==
    [][(lastOp'.op = "handleActivityWheel" /\ ~lastOp'.x[3])
       => \E a \in AllActivities :
            LET v == IF a.variation = None THEN 0 ELSE a.variation[1]
                next == (v + lastOp'.x[2] + 5) % 5
            IN  /\ a.id = lastOp'.x[1]
                /\ next \in 0..4
                /\ instruments' = WithVariation(a.id, next)
                /\ sections' = sections
                /\ totalBars' = totalBars]_vars

\* wheel-up has taken an activity from 0 to 4 beside an activity it left alone
C31_Witness ==
    /\ lastOp.op = "handleActivityWheel"
    /\ lastOp.x[2] = 0 - 1
    /\ ~lastOp.x[3]
    /\ \E a, b \in AllActivities :
            /\ a.id = lastOp.x[1] /\ a.variation = Some(4)
            /\ b.id # a.id /\ b.variation = Some(0)

-----------------------------------------------------------------------------
(* The drag of an interval *)

\* the drag of the row of instrument r: its dragInfo, with the activity it
\* names
DragOf(r) == rows[r].dragInfo[1]
Dragged(r) == ActivityById(r, DragOf(r).activityId)
DraggedAfter(r) ==
    CHOOSE a \in Range((CHOOSE i \in Range(instruments') : i.id = r).activities) :
        a.id = DragOf(r).activityId

\* a pointer-move reaches the branch `edge` of the drag of row r
Resizes(r, edge) ==
    /\ lastOp'.op \in MoveHandlers
    /\ rows[r].isDragging /\ rows[r].dragInfo # None
    /\ DragOf(r).edge = edge
    /\ HasActivity(r, DragOf(r).activityId)

\* C32: while the start edge of an activity with original span
\* [originalStart, originalEnd] is dragged, a pointer-move with bar delta d
\* sets startBar to originalStart + d clamped to 1..originalEnd and leaves
\* endBar unchanged.
C32_StartEdgeClamp ==
    [][\A r \in DOMAIN rows :
        Resizes(r, "start")
        => LET d == getBarPositionFromMousePos(lastOp'.x) - DragOf(r).initialBar
               wanted == DragOf(r).initialStart + d
               clamped == IF wanted < 1 THEN 1
                          ELSE IF wanted > DragOf(r).initialEnd THEN DragOf(r).initialEnd
                          ELSE wanted
           IN  /\ DraggedAfter(r).startBar = clamped
               /\ DraggedAfter(r).endBar = Dragged(r).endBar
               /\ DraggedAfter(r).endBar = DragOf(r).initialEnd
               /\ DraggedAfter(r).startBar <= DragOf(r).initialEnd]_vars

\* a start edge dragged right of the end has stopped on the end
C32_Witness ==
    /\ lastOp.op \in MoveHandlers
    /\ \E r \in DOMAIN rows :
        /\ rows[r].isDragging /\ rows[r].dragInfo # None
        /\ DragOf(r).edge = "start"
        /\ HasActivity(r, DragOf(r).activityId)
        /\ DragOf(r).initialStart < DragOf(r).initialEnd
        /\ getBarPositionFromMousePos(lastOp.x) > DragOf(r).initialEnd
        /\ Dragged(r).startBar = DragOf(r).initialEnd
        /\ Dragged(r).endBar = DragOf(r).initialEnd

\* Both tracks and the bar count of the footer
NextCanvas ==
    \/ AddInstrument
    \/ ActivityMouseDown
    \/ MouseMove
    \/ GlobalMouseMove
    \/ MouseUp
    \/ GlobalMouseUp
    \/ RowMouseDown
    \/ CreationMouseUp
    \/ TimelineMouseDown
    \/ SectionMouseDown
    \/ SectionMouseMove
    \/ SectionMouseUp
    \/ BarCountChange

SpecCanvas == Init /\ [][NextCanvas]_vars

\* the section the section bar drags
SectionDrag == sectionBar.draggingSection[1]
DraggedSectionAfter == CHOOSE s \in Range(sections') : s.id = SectionDrag.id

\* an interval of `length` + 1 bars placed by a move whose window starts on
\* wantedStart: kept whole, translated back from the last bar
Translated(interval, length, wantedStart) ==
    /\ interval.endBar - interval.startBar = length
    /\ Max(1, wantedStart) + length > totalBars
        => interval.endBar = totalBars /\ interval.startBar = totalBars - length

\* C33: every applied pointer-move of a Moving drag, of an activity or of a
\* section, leaves endBar - startBar equal to its value at drag start; a
\* window that would end past totalBars is placed with endBar = totalBars and
\* startBar = totalBars - length.
C33_MovePreservesLength ==
    [][/\ \A r \in DOMAIN rows :
            (Resizes(r, "move") /\ instruments' # instruments)
            => Translated(DraggedAfter(r),
                          DragOf(r).initialEnd - DragOf(r).initialStart,
                          DragOf(r).initialStart
                            + getBarPositionFromMousePos(lastOp'.x) - DragOf(r).initialBar)
       /\ (/\ lastOp'.op = "handleSectionMouseMove"
           /\ sectionBar.isDragging /\ sectionBar.draggingSection # None
           /\ SectionDrag.edge = "move"
           /\ HasSection(SectionDrag.id))
          => Translated(DraggedSectionAfter,
                        SectionDrag.initialEnd - SectionDrag.initialStart,
                        SectionDrag.initialStart
                          + positionToBar(lastOp'.x) - SectionDrag.initialBar)]_vars

\* ... which holds of the moves of an interval that fits the canvas
C33_MoveOfFittingInterval ==
    [][/\ \A r \in DOMAIN rows :
            (/\ Resizes(r, "move") /\ instruments' # instruments
             /\ DragOf(r).initialEnd <= totalBars)
            => Translated(DraggedAfter(r),
                          DragOf(r).initialEnd - DragOf(r).initialStart,
                          DragOf(r).initialStart
                            + getBarPositionFromMousePos(lastOp'.x) - DragOf(r).initialBar)
       /\ (/\ lastOp'.op = "handleSectionMouseMove"
           /\ sectionBar.isDragging /\ sectionBar.draggingSection # None
           /\ SectionDrag.edge = "move"
           /\ HasSection(SectionDrag.id)
           /\ SectionDrag.initialEnd <= totalBars)
          => Translated(DraggedSectionAfter,
                        SectionDrag.initialEnd - SectionDrag.initialStart,
                        SectionDrag.initialStart
                          + positionToBar(lastOp'.x) - SectionDrag.initialBar)]_vars

\* C37: in every reachable state every section and every activity ends on
\* the canvas: endBar <= totalBars.
C37_IntervalsOnCanvas ==
    /\ \A s \in Range(sections) : s.endBar <= totalBars
    /\ \A a \in AllActivities : a.endBar <= totalBars

----------------------------------------------------------------------------
(* The beat grid: files with and without audio are dropped and decoded (or *)
(* fail to decode), and the analysis reports tempos of every kind.  The     *)
(* tempos that are numbers have a whole number of seconds per beat.         *)

\* durations of the files, tempos of the first candidate, bars asked for
GridFiles == {0, 2, 9}
GridBpms == {20, 30, 60}
InvalidTempos == {0, 0 - 60, NaN, Infinity}
GridBarIndexes == {1, 3}

\* the page answers events unless a handler is in a loop that does not end
Responsive == ~player.looping

DropGridFile ==
    \E file \in GridFiles :
        /\ Responsive
        /\ player.audioFile # Some(file)
        /\ player' = Render(player, audioFileEffect(player, file))
        /\ lastOp' = Op("audioFileEffect", file)
        /\ Gesture
        /\ UNCHANGED <<editorVars, advancesLeft>>

GridFileDecoded ==
    \E file \in player.decoding :
        /\ Responsive
        /\ player' = Render(player, initWebAudioResolved(player, file))
        /\ lastOp' = Op("initWebAudioResolved", file)
        /\ UNCHANGED <<editorVars, gesturesLeft, advancesLeft>>

GridFileRejected ==
    \E file \in player.decoding :
        /\ Responsive
        /\ player' = Render(player, initWebAudioRejected(player, file))
        /\ lastOp' = Op("initWebAudioRejected", file)
        /\ UNCHANGED <<editorVars, gesturesLeft, advancesLeft>>

TempoResolved ==
    \E a \in player.analyses : \E tempo \in GridBpms \cup InvalidTempos :
        /\ Responsive
        /\ player' = Render(player, tempoResolved(player, a, tempo))
        /\ lastOp' = Op("tempoResolved", tempo)
        /\ UNCHANGED <<editorVars, gesturesLeft, advancesLeft>>

GridSeekToBar ==
    \E barIndex \in GridBarIndexes :
        /\ Responsive
        /\ player' = Render(player, seekToBar(player, Closure(player), barIndex))
        /\ lastOp' = Op("seekToBar", barIndex)
        /\ Gesture
        /\ UNCHANGED <<editorVars, advancesLeft>>

NextBeats ==
    \/ DropGridFile
    \/ GridFileDecoded
    \/ GridFileRejected
    \/ TempoResolved
    \/ GridSeekToBar

SpecBeats == Init /\ [][NextBeats]_vars

\* the grid that calculateBeatPositions is to build for a buffer and a tempo
BeatGridOf(grid, duration, bpm) ==
    LET totalBeats == Max(1, CeilDiv(duration * bpm, 60))
        bars == {i \in 0..(totalBeats - 1) : i % BeatsPerBar = 0}
    IN  /\ Len(grid.beatPositions) = totalBeats
        /\ \A i \in 0..(totalBeats - 1) : grid.beatPositions[i + 1] * bpm = i * 60
        /\ Len(grid.barPositions) = Cardinality(bars)
        /\ \A k \in 1..Len(grid.barPositions) :
               grid.barPositions[k] = grid.beatPositions[(k - 1) * BeatsPerBar + 1]
        /\ \A list \in {grid.beatPositions, grid.barPositions} :
               /\ list[1] = 0
               /\ \A k \in 1..(Len(list) - 1) : list[k] < list[k + 1]

\* C34: when the analysis hands a tempo bpm > 0 to calculateBeatPositions and
\* a buffer of duration >= 0 is stored, the grid installed has
\* max(1, ceil(duration * bpm / 60)) beat positions, the i-th at i * 60 / bpm,
\* its bar positions are the beat positions at the indices 0, beatsPerBar,
\* 2 * beatsPerBar, ... below that count, and both lists start at 0 and are
\* strictly ascending.
C34_BeatGrid ==
    [][(/\ lastOp'.op = "tempoResolved"
        /\ lastOp'.x \in GridBpms
        /\ player.audioBufferRef # None)
       => /\ player'.beatInfo # None
          /\ BeatGridOf(player'.beatInfo[1], player.audioBufferRef[1], lastOp'.x)]_vars

\* C34 witness: grids of one beat (no audio), of one bar and of three bars
C34_Witness ==
    /\ lastOp.op = "tempoResolved"
    /\ lastOp.x = 60
    /\ player.audioBufferRef = Some(9)
    /\ player.beatInfo # None
    /\ Len(player.beatInfo[1].barPositions) = 3

\* C34 witness of the buffer without audio: the grid of the single beat at 0
C34_WitnessNoAudio ==
    /\ lastOp.op = "tempoResolved"
    /\ lastOp.x \in GridBpms
    /\ player.audioBufferRef = Some(0)
    /\ player.beatInfo # None
    /\ player.beatInfo[1].beatPositions = <<0>>

\* C35: when the tempo handed to the calculation is non-positive, NaN or
\* infinite, or no buffer is stored, the calculation ends and installs no
\* grid, and a later seekToBar without a grid uses the estimate
\* (barIndex - 1) * duration / 64.
C35_NoGridOnInvalidTempo ==
    [][/\ (/\ lastOp'.op = "tempoResolved"
           /\ (lastOp'.x \in InvalidTempos \/ player.audioBufferRef = None))
          => /\ ~player'.looping
             /\ player'.beatInfo = player.beatInfo
       /\ (/\ lastOp'.op = "seekToBar"
           /\ player.beatInfo = None
           /\ player.audioBufferRef # None
           /\ player.audioBufferRef[1] > 0)
          => player'.pausedTimeRef
                = ((lastOp'.x - 1) * player.audioBufferRef[1]) \div InitialTotalBars]_vars

\* C35, the tempos other than Infinity: the calculation ends, the grid is
\* left as it was
C35_NoGridOnFiniteInvalidTempo ==
    [][(/\ lastOp'.op = "tempoResolved"
        /\ (lastOp'.x \in InvalidTempos \ {Infinity} \/ player.audioBufferRef = None))
       => /\ ~player'.looping
          /\ player'.beatInfo = player.beatInfo]_vars

----------------------------------------------------------------------------
(* The polling loop: files are dropped and decoded, the transport, a seek   *)
(* and the slider are used, frames run and the clock advances to the end    *)
(* of the audio.                                                            *)

NextPolling ==
    \/ DropAudioFile
    \/ InitWebAudioResolved
    \/ AnalysisResolved
    \/ PlayPause
    \/ Stop
    \/ SeekToTime
    \/ ScrubStart
    \/ ScrubEnd
    \/ AnimationFrame
    \/ Timeout
    \/ AdvanceClock

SpecPolling == Init /\ [][NextPolling]_vars

\* no animation frame is requested and rafIdRef holds no id
NoTickPending(p) == p.frames = {} /\ p.rafIdRef = None

\* the tick that runs finds the position at or past the end of the buffer
AtEndOfPlayback(p) ==
    /\ p.audioContextRef
    /\ p.audioBufferRef # None
    /\ currentAudioTime(p) >= p.audioBufferRef[1]

\* C36: at most one animation frame is requested at any time; after
\* handlePlayPause in a playing render (pause), after handleStop, after the
\* tick that finds the end of the audio and after the audioFile effect of a
\* new file no frame is requested; and handleStop after handleStop changes
\* nothing of the player, handleStop after a pause nothing of the frames.
C36_PollingLoop ==
    [][/\ Cardinality(player'.frames) <= 1
       /\ (\/ lastOp'.op = "handlePlayPause" /\ player.isPlaying
           \/ lastOp'.op = "handleStop"
           \/ lastOp'.op = "updateWebAudioTime" /\ AtEndOfPlayback(player)
           \/ lastOp'.op = "audioFileEffect")
          => NoTickPending(player')
       /\ (lastOp.op = "handleStop" /\ lastOp'.op = "handleStop")
          => player' = player
       /\ (/\ lastOp.op = "handlePlayPause"
           /\ ~player.isPlaying
           /\ lastOp'.op = "handleStop")
          => /\ player'.frames = player.frames
             /\ player'.rafIdRef = player.rafIdRef]_vars

\* C36 witness: a stop after a play that was made when the clock had advanced
C36_Witness ==
    /\ lastOp.op = "handleStop"
    /\ NoTickPending(player)
    /\ player.startTimeRef > 0
    /\ player.pausedTimeRef = 0

\* C36 witness of the file change: a file dropped after a play
C36_WitnessFileChange ==
    /\ lastOp.op = "audioFileEffect"
    /\ NoTickPending(player)
    /\ player.startTimeRef > 0

\* C36 witness of the end of playback: the tick that stops the audio
C36_WitnessEnd ==
    /\ lastOp.op = "updateWebAudioTime"
    /\ NoTickPending(player)
    /\ player.audioBufferRef # None
    /\ player.contextTime - player.startTimeRef >= player.audioBufferRef[1]

----------------------------------------------------------------------------
(* The deferred resume of a seek made while the audio plays, against the    *)
(* stop button.                                                             *)

\* C38: when handleStop runs while the setTimeout(() => playAudio(), 10) of a
\* seek is pending, the controller is not playing once the timer has fired:
\* isPlaying is false, no source is active and pausedTimeRef is 0.
C38_DeferredResume ==
    [][(/\ lastOp.op = "handleStop"
        /\ player.timeouts # <<>>
        /\ lastOp'.op = "playAudio")
       => /\ ~player'.isPlaying
          /\ player'.activeSources = 0
          /\ player'.sourceNodeRef = None
          /\ player'.pausedTimeRef = 0]_vars

----------------------------------------------------------------------------
(* Whole pointer gestures on empty track space: the press, the release and  *)
(* the click event the browser delivers after the release, when React has   *)
(* rendered the state the release left.  The moves of a creation only set   *)
(* currentMousePos, which places the preview.  The preview of a section has *)
(* pointerEvents 'none', so the click goes to the timeline; whether the     *)
(* preview of an activity takes the pointer is left to the stylesheet, and  *)
(* the click is on the row background or on another element.                *)

\* clientX of presses and releases: bars 1, 5 and the last bar
GestureXs == ColumnXs(1) \cup ColumnXs(DefaultSpanExtra + 2) \cup ColumnXs(totalBars)

\* a release has happened and its click has not been delivered yet
ClickDue == lastOp.op \in {"handleCreationMouseUp", "handleSectionMouseUp"}

GestureAddInstrument ==
    /\ ~ClickDue
    /\ Len(instruments) < 1
    /\ addInstrument
    /\ NoGesture
    /\ lastOp' = Op("addInstrument", Len(instruments))
    /\ UNCHANGED <<playerVars, download>>

PressOnRow ==
    \E r \in DOMAIN rows : \E x \in GestureXs :
        /\ ~ClickDue
        /\ handleRowMouseDown(r, x)
        /\ Gesture
        /\ lastOp' = Op("handleRowMouseDown", <<r, x>>)
        /\ UNCHANGED <<playerVars, download>>

\* the release is labelled with the row, clientX, the number of activities
\* before it and the bar of the press
ReleaseOnRow ==
    \E r \in DOMAIN rows : \E x \in GestureXs :
        /\ rows[r].creationStartBar # None
        /\ handleCreationMouseUp(r, x)
        /\ NoGesture
        /\ lastOp' = Op("handleCreationMouseUp",
                        <<r, x, ActivityCount(r), rows[r].creationStartBar[1]>>)
        /\ UNCHANGED <<playerVars, download>>

ClickAfterRelease ==
    \E onBackground \in BOOLEAN :
        /\ lastOp.op = "handleCreationMouseUp"
        /\ IF onBackground
           THEN handleRowClick(lastOp.x[1], lastOp.x[2])
           ELSE UNCHANGED <<arrVars, uiVars>>
        /\ NoGesture
        /\ lastOp' = Op("handleRowClick", <<lastOp.x[1], lastOp.x[2]>>)
        /\ UNCHANGED <<playerVars, download>>

PressOnTimeline ==
    \E x \in GestureXs :
        /\ ~ClickDue
        /\ handleTimelineMouseDown(x)
        /\ Gesture
        /\ lastOp' = Op("handleTimelineMouseDown", x)
        /\ UNCHANGED <<playerVars, download>>

\* the release is labelled with clientX, the number of sections before it
\* and the bar of the press
ReleaseOnTimeline ==
    \E x \in GestureXs :
        /\ sectionBar.creationStartBar # None
        /\ handleSectionMouseUp(x)
        /\ NoGesture
        /\ lastOp' = Op("handleSectionMouseUp",
                        <<x, Len(sections), sectionBar.creationStartBar[1]>>)
        /\ UNCHANGED <<playerVars, download>>

TimelineClickAfterRelease ==
    /\ lastOp.op = "handleSectionMouseUp"
    /\ handleTimelineClick(lastOp.x[1])
    /\ NoGesture
    /\ lastOp' = Op("handleTimelineClick", lastOp.x[1])
    /\ UNCHANGED <<playerVars, download>>

NextGestures ==
    \/ GestureAddInstrument
    \/ PressOnRow
    \/ ReleaseOnRow
    \/ ClickAfterRelease
    \/ PressOnTimeline
    \/ ReleaseOnTimeline
    \/ TimelineClickAfterRelease

SpecGestures == Init /\ [][NextGestures]_vars

\* C39, first part: a gesture begun on empty track space adds at most one
\* activity to the row, at most one section to the timeline, its click
\* included.
C39_AtMostOneInterval ==
    [][/\ (lastOp.op = "handleCreationMouseUp" /\ lastOp'.op = "handleRowClick")
          => ActivityCount(lastOp.x[1])' <= lastOp.x[3] + 1
       /\ (lastOp.op = "handleSectionMouseUp" /\ lastOp'.op = "handleTimelineClick")
          => Len(sections') <= lastOp.x[2] + 1]_vars

\* C39: a gesture begun on empty track space adds at most one activity,
\* respectively at most one section, its click included; and when the
\* release is on another bar than the press and adds nothing, its range
\* overlapping an interval of the track, the gesture adds nothing.
C39_OneGestureOneInterval ==
    [][/\ (lastOp.op = "handleCreationMouseUp" /\ lastOp'.op = "handleRowClick")
          => LET r == lastOp.x[1]
                 before == lastOp.x[3]
                 rejected == /\ getBarPositionFromMousePos(lastOp.x[2]) # lastOp.x[4]
                             /\ ActivityCount(r) = before
             IN  /\ ActivityCount(r)' <= before + 1
                 /\ rejected => ActivityCount(r)' = before
       /\ (lastOp.op = "handleSectionMouseUp" /\ lastOp'.op = "handleTimelineClick")
          => LET before == lastOp.x[2]
                 rejected == /\ positionToBar(lastOp.x[1]) # lastOp.x[3]
                             /\ Len(sections) = before
             IN  /\ Len(sections') <= before + 1
                 /\ rejected => Len(sections') = before]_vars

----------------------------------------------------------------------------
(* A new file after the player has been used on the previous one.           *)

\* C40: after the audioFile effect of a new file pausedTimeRef is 0, and the
\* play that follows the decoding of the new file starts its source from
\* offset 0, whatever position a pause, a seek or the slider had set on the
\* previous file.
C40_NewFileStartsAtBeginning ==
    [][/\ lastOp'.op = "audioFileEffect" => player'.pausedTimeRef = 0
       /\ (/\ lastOp.op = "initWebAudioResolved"
           /\ lastOp'.op = "handlePlayPause"
           /\ player'.sourceNodeRef # None)
          => player'.sourceNodeRef[1].offset = 0]_vars

====
